---------------------------- MODULE Spec2Model ----------------------------
(***************************************************************************)
(* A model of encoredev-migrator: the configuration resolver               *)
(* (InfraConfig.GetMapping), connection-string construction, the           *)
(* orchestrator loops of the CLI (runMigrations, showStatus) and the        *)
(* Migrator wrapper around the migration engine.                            *)
(*                                                                         *)
(* Strings are sequences of one-character strings, so that splitting and   *)
(* percent-encoding are computed character by character; "" is <<>>.       *)
(* A fixed piece of message text produced by a format string is one        *)
(* element of the sequence (for example "resolving username for ").        *)
(* A Go pointer or error that may be nil is a sequence of length 0 or 1.   *)
(***************************************************************************)
EXTENDS Integers, Sequences, FiniteSets, TLC

VARIABLES
    config,     \* the loaded InfraConfig: its SQLServers, in declaration order
    env,        \* the process environment: variable name -> value, <<>> when unset
    query,      \* the logical name of the last GetMapping call (<<>> before any call)
    result,     \* what the last GetMapping call returned: [mapping, err]
    descriptor, \* the DatabaseMapping handed to BuildConnectionString
    connStr,    \* what BuildConnectionString returned: [str, err]
    cmd,        \* the parsed command line: subcommand and flags
    databases,  \* the databases of the run: the deduplicated discovery list, then filtered
    run,        \* the command's locals: pc, loop index, errs, stderr, engine calls, returned error
    targets,    \* the physical databases: logical name -> [version, dirty]
    last,       \* the last direct call of a Migrator method and what it returned
    fsys,       \* the file system under the --app root: the walk's entries, the existing paths
    manifest,   \* the parsed manifest document: its databases entries, in order
    disc,       \* the discovery in progress: position, databases, diagnostics, returned error
    history,    \* the GetMapping calls made so far: [name, env, result] each
    conns       \* the logical names of the databases with an open engine connection

resolveVars == <<config, env, query, result>>
connVars == <<descriptor, connStr>>
runVars == <<cmd, databases, run>>
engineVars == <<targets, last>>
discVars == <<fsys, manifest, disc>>

vars == <<config, env, query, result, descriptor, connStr, cmd, databases, run,
          targets, last, fsys, manifest, disc, history, conns>>

-----------------------------------------------------------------------------
(* Bounds of the model *)

MaxServers == 2
MaxHostLen == 4
MaxCredLen == 2
MaxDatabases == 3
NumMigrations == 2
MaxSteps == 2
MaxListLen == 3
MaxCalls == 2
MaxManifestLen == 2
MaxHistory == 3

-----------------------------------------------------------------------------
(* Strings *)

RECURSIVE LastIndexFrom(_, _, _)
LastIndexFrom(s, c, i) ==
    IF i = 0 THEN 0
    ELSE IF s[i] = c THEN i
    ELSE LastIndexFrom(s, c, i - 1)

\* strings.LastIndex(s, c) for a one-character c, 1-based; 0 when c is absent
\* (Go: 0-based, -1 when absent).
LastIndex(s, c) == LastIndexFrom(s, c, Len(s))

\* strings.Contains(s, sub)
Contains(s, sub) ==
    \E i \in 0..(Len(s) - Len(sub)) :
        \A k \in 1..Len(sub) : s[i + k] = sub[k]

\* All strings over alphabet A of length at most n.
RECURSIVE StringsUpTo(_, _)
StringsUpTo(A, n) ==
    IF n = 0 THEN {<<>>}
    ELSE LET shorter == StringsUpTo(A, n - 1)
         IN  shorter \cup {Append(s, c) : s \in shorter, c \in A}

\* fmt's %q of a name made of identifier characters: the name in double quotes.
Quote(s) == <<"\"">> \o s \o <<"\"">>

-----------------------------------------------------------------------------
(* internal/config: StringOrEnvRef *)

Literal(v) == [Value |-> v, EnvVar |-> <<>>, IsEnv |-> FALSE]
EnvRef(n)  == [Value |-> <<>>, EnvVar |-> n, IsEnv |-> TRUE]

\* A mutant of Getenv: the environment as it was at the first call.
GetenvAtFirstCall(e, n) ==
    IF history # <<>> THEN history[1].env[n]
    ELSE IF n \in DOMAIN e THEN e[n] ELSE <<>>

\* os.Getenv: the value of the variable, "" when it is not set.
Getenv(e, n) == IF n \in DOMAIN e THEN e[n] ELSE <<>>

\* A mutant of Resolve: an unset variable resolves to the empty string.
ResolveUnsetAsEmpty(s, e) ==
    IF ~s.IsEnv THEN [value |-> s.Value, err |-> <<>>]
    ELSE [value |-> Getenv(e, s.EnvVar), err |-> <<>>]

\* StringOrEnvRef.Resolve: (value, error)
Resolve(s, e) ==
    IF ~s.IsEnv THEN [value |-> s.Value, err |-> <<>>]
    ELSE LET value == Getenv(e, s.EnvVar)
         IN  IF value = <<>>
             THEN [value |-> <<>>,
                   err |-> <<"environment variable ">> \o s.EnvVar \o <<" is not set">>]
             ELSE [value |-> value, err |-> <<>>]

-----------------------------------------------------------------------------
(* internal/config: parseHostPort *)

DefaultPort == <<"5", "4", "3", "2">>

\* A mutant of parseHostPort: splits at the first ':' instead of the last.
RECURSIVE FirstIndexFrom(_, _, _)
FirstIndexFrom(s, c, i) ==
    IF i > Len(s) THEN 0
    ELSE IF s[i] = c THEN i
    ELSE FirstIndexFrom(s, c, i + 1)

parseHostPortFirstColon(hostStr) ==
    LET idx == FirstIndexFrom(hostStr, ":", 1)
    IN  IF idx # 0
        THEN [host |-> SubSeq(hostStr, 1, idx - 1),
              port |-> SubSeq(hostStr, idx + 1, Len(hostStr))]
        ELSE [host |-> hostStr, port |-> DefaultPort]

parseHostPort(hostStr) ==
    LET idx == LastIndex(hostStr, ":")
    IN  IF idx # 0
        THEN [host |-> SubSeq(hostStr, 1, idx - 1),
              port |-> SubSeq(hostStr, idx + 1, Len(hostStr))]
        ELSE [host |-> hostStr, port |-> DefaultPort]

-----------------------------------------------------------------------------
(* internal/config: InfraConfig.GetMapping *)

\* The SSL mode of a server (GetMapping, "Determine SSL mode").
\* A mutant: any enabled TLS block gives "require".
sslModeAnyTLS(server) ==
    IF server.TLSConfig # <<>> /\ ~server.TLSConfig[1].Disabled
    THEN "require" ELSE "disable"

sslModeOf(server) ==
    IF /\ server.TLSConfig # <<>>
       /\ ~server.TLSConfig[1].Disabled
       /\ server.TLSConfig[1].ClientCert # <<>>
    THEN "require" ELSE "disable"

\* The physical database name (GetMapping, "Resolve actual database name").
\* A mutant: a failed resolution of the name falls back to the logical name.
pgDBNameFallback(dbConfig, e, encoreName) ==
    LET r == Resolve(dbConfig.Name, e)
    IN  IF r.err # <<>> \/ r.value = <<>>
        THEN [value |-> encoreName, err |-> <<>>]
        ELSE [value |-> r.value, err |-> <<>>]

pgDBNameOf(dbConfig, e, encoreName) ==
    LET r == Resolve(dbConfig.Name, e)
    IN  IF r.err # <<>>
        THEN IF dbConfig.Name.Value = <<>> /\ ~dbConfig.Name.IsEnv
             THEN [value |-> encoreName, err |-> <<>>]
             ELSE [value |-> <<>>,
                   err |-> <<"resolving database name for ">> \o encoreName
                           \o <<": ">> \o r.err]
        ELSE IF r.value = <<>>
             THEN [value |-> encoreName, err |-> <<>>]
             ELSE [value |-> r.value, err |-> <<>>]

\* The body of GetMapping's loop for the server that declares encoreName.
mappingFromServer(server, e, encoreName) ==
    LET dbConfig == server.Databases[encoreName]
        hp       == parseHostPort(server.Host)
        username == Resolve(dbConfig.Username, e)
        password == Resolve(dbConfig.Password, e)
        pgDBName == pgDBNameOf(dbConfig, e, encoreName)
    IN  IF username.err # <<>>
        THEN [mapping |-> <<>>,
              err |-> <<"resolving username for ">> \o encoreName
                      \o <<": ">> \o username.err]
        ELSE IF password.err # <<>>
        THEN [mapping |-> <<>>,
              err |-> <<"resolving password for ">> \o encoreName
                      \o <<": ">> \o password.err]
        ELSE IF pgDBName.err # <<>>
        THEN [mapping |-> <<>>, err |-> pgDBName.err]
        ELSE [mapping |-> << [EncoreName |-> encoreName,
                              PGDBName   |-> pgDBName.value,
                              Host       |-> hp.host,
                              Port       |-> hp.port,
                              Username   |-> username.value,
                              Password   |-> password.value,
                              SSLMode    |-> sslModeOf(server)] >>,
              err |-> <<>>]

\* types.ConfigError for a name no server declares.
notFound(encoreName) ==
    [mapping |-> <<>>,
     err |-> <<"config error in ", "sql_servers.databases", ": ", "database ">>
             \o Quote(encoreName) \o <<" not found in InfraConfig">>]

\* A mutant of the lookup: a server whose secrets do not resolve is passed over
\* and the next server declaring the name is used.
RECURSIVE getMappingFallback(_, _, _, _)
getMappingFallback(servers, i, e, encoreName) ==
    IF i > Len(servers) THEN notFound(encoreName)
    ELSE IF encoreName \in DOMAIN servers[i].Databases
            /\ mappingFromServer(servers[i], e, encoreName).err = <<>>
         THEN mappingFromServer(servers[i], e, encoreName)
         ELSE getMappingFallback(servers, i + 1, e, encoreName)

\* GetMapping's loop over c.SQLServers from index i on.
RECURSIVE getMappingFrom(_, _, _, _)
getMappingFrom(servers, i, e, encoreName) ==
    IF i > Len(servers) THEN notFound(encoreName)
    ELSE IF encoreName \in DOMAIN servers[i].Databases
         THEN mappingFromServer(servers[i], e, encoreName)
         ELSE getMappingFrom(servers, i + 1, e, encoreName)

GetMapping(servers, e, encoreName) == getMappingFrom(servers, 1, e, encoreName)

-----------------------------------------------------------------------------
(* internal/migration: BuildConnectionString *)

\* The bytes url.QueryEscape leaves as they are: letters, digits, '-', '_', '.', '~'.
Unreserved == {"a", "b", "c", "d", "e", "f", "g", "h", "i", "j", "k", "l", "m",
               "n", "o", "p", "q", "r", "s", "t", "u", "v", "w", "x", "y", "z",
               "0", "1", "2", "3", "4", "5", "6", "7", "8", "9", "-", "_", ".", "~"}

\* The two upper-case hexadecimal digits of a byte's code.
HexOf(c) ==
    CASE c = "@" -> <<"4", "0">>
      [] c = ":" -> <<"3", "A">>
      [] c = "/" -> <<"2", "F">>
      [] c = "+" -> <<"2", "B">>
      [] c = "%" -> <<"2", "5">>
      [] c = "?" -> <<"3", "F">>
      [] c = "#" -> <<"2", "3">>

\* url.QueryEscape of one byte: ' ' becomes '+', a reserved byte becomes %XX.
escapeByte(c) ==
    IF c \in Unreserved THEN <<c>>
    ELSE IF c = " " THEN <<"+">>
    ELSE <<"%">> \o HexOf(c)

\* url.QueryEscape
RECURSIVE QueryEscape(_)
QueryEscape(s) ==
    IF s = <<>> THEN <<>>
    ELSE escapeByte(Head(s)) \o QueryEscape(Tail(s))

noConnStr == [str |-> <<>>, err |-> <<>>]

\* A mutant of BuildConnectionString: the host is not checked.
BuildConnectionStringUncheckedHost(mapping) ==
    IF mapping.PGDBName = <<>> THEN [str |-> <<>>, err |-> <<"database name is required">>]
    ELSE IF mapping.Username = <<>> THEN [str |-> <<>>, err |-> <<"username is required">>]
    ELSE LET password == QueryEscape(mapping.Password)
             port     == IF mapping.Port = <<>> THEN DefaultPort ELSE mapping.Port
             sslMode  == IF mapping.SSLMode = "" THEN "disable" ELSE mapping.SSLMode
         IN  [str |-> <<"postgres://">> \o QueryEscape(mapping.Username) \o <<":">>
                      \o password \o <<"@">> \o mapping.Host \o <<":">> \o port
                      \o <<"/">> \o mapping.PGDBName \o <<"?sslmode=", sslMode>>,
              err |-> <<>>]

\* BuildConnectionString(mapping): (connStr, error)
BuildConnectionString(mapping) ==
    IF mapping.Host = <<>> THEN [str |-> <<>>, err |-> <<"host is required">>]
    ELSE IF mapping.PGDBName = <<>> THEN [str |-> <<>>, err |-> <<"database name is required">>]
    ELSE IF mapping.Username = <<>> THEN [str |-> <<>>, err |-> <<"username is required">>]
    ELSE LET password == QueryEscape(mapping.Password)
             port     == IF mapping.Port = <<>> THEN DefaultPort ELSE mapping.Port
             sslMode  == IF mapping.SSLMode = "" THEN "disable" ELSE mapping.SSLMode
         IN  [str |-> <<"postgres://">> \o QueryEscape(mapping.Username) \o <<":">>
                      \o password \o <<"@">> \o mapping.Host \o <<":">> \o port
                      \o <<"/">> \o mapping.PGDBName \o <<"?sslmode=", sslMode>>,
              err |-> <<>>]

-----------------------------------------------------------------------------
(* The migration engine (golang-migrate v4), as the Migrator uses it.  A     *)
(* target is [version, dirty]; the migrations of a database are numbered     *)
(* 1..NumMigrations and version 0 is "nothing applied".                      *)

Min(a, b) == IF a < b THEN a ELSE b

CleanTarget(v) == [version |-> v, dirty |-> FALSE]

\* The engine runs n migrations from t in direction dir (+1 forward, -1 back);
\* failAt = k > 0 makes the k-th of them fail, which leaves the target dirty at
\* that migration's version.  It does not look at the dirty flag itself.
migRun(t, dir, n, failAt) ==
    IF n = 0 THEN [target |-> t, err |-> "ErrNoChange"]
    ELSE IF failAt \in 1..n
    THEN [target |-> [version |-> t.version + dir * failAt, dirty |-> TRUE],
          err |-> "migration failed"]
    ELSE [target |-> [version |-> t.version + dir * n, dirty |-> FALSE], err |-> ""]

\* mig.Steps(n): n migrations forward (n > 0) or -n back (n < 0).  With none
\* to run in that direction the engine returns os.ErrNotExist; with fewer than
\* asked for it runs those and returns ErrShortLimit.
migSteps(t, n, failAt) ==
    LET dir   == IF n > 0 THEN 1 ELSE -1
        limit == IF n > 0 THEN n ELSE -n
        avail == IF n > 0 THEN NumMigrations - t.version ELSE t.version
        r     == migRun(t, dir, Min(limit, avail), failAt)
    IN  IF n = 0 THEN [target |-> t, err |-> "ErrNoChange"]
        ELSE IF avail = 0 THEN [target |-> t, err |-> "file does not exist"]
        ELSE IF avail < limit /\ r.err = ""
        THEN [target |-> r.target, err |-> "limit short"]
        ELSE r

\* mig.Up(): every pending migration.
migUp(t, failAt) == migRun(t, 1, NumMigrations - t.version, failAt)

\* mig.Down(): every applied migration.
migDown(t, failAt) == migRun(t, -1, t.version, failAt)

\* mig.Force(version): sets the version and clears the dirty flag.
migForce(t, version) == [target |-> [version |-> version, dirty |-> FALSE], err |-> ""]

-----------------------------------------------------------------------------
(* internal/migration: Migrator *)

createError == <<"creating migrator: ", "connection failed">>

dirtyError(version) ==
    <<"database is in dirty state at version ", ToString(version),
      ", manual intervention required">>

MigrationResult(direction, before, after) ==
    [Direction |-> direction, VersionBefore |-> before, VersionAfter |-> after]

\* A mutant of Up: the dirty flag is not checked before migrating.
MigratorUpNoDirtyCheck(t, steps, connect, failAt) ==
    IF ~connect THEN [result |-> <<>>, err |-> createError, target |-> t]
    ELSE LET r == IF steps > 0 THEN migSteps(t, steps, failAt) ELSE migUp(t, failAt)
         IN  IF r.err # "" /\ r.err # "ErrNoChange"
             THEN [result |-> <<>>, err |-> <<"running migrations: ", r.err>>,
                   target |-> r.target]
             ELSE [result |-> << MigrationResult("up", t.version, r.target.version) >>,
                   err |-> <<>>, target |-> r.target]

\* Migrator.Up(connStr, migrationsPath, steps): (result, error), and the target
\* after the call.  connect tells whether migrate.New succeeds.
MigratorUp(t, steps, connect, failAt) ==
    IF ~connect THEN [result |-> <<>>, err |-> createError, target |-> t]
    ELSE IF t.dirty THEN [result |-> <<>>, err |-> dirtyError(t.version), target |-> t]
    ELSE LET r == IF steps > 0 THEN migSteps(t, steps, failAt) ELSE migUp(t, failAt)
         IN  IF r.err # "" /\ r.err # "ErrNoChange"
             THEN [result |-> <<>>, err |-> <<"running migrations: ", r.err>>,
                   target |-> r.target]
             ELSE [result |-> << MigrationResult("up", t.version, r.target.version) >>,
                   err |-> <<>>, target |-> r.target]

\* Migrator.Down(connStr, migrationsPath, steps)
MigratorDown(t, steps, connect, failAt) ==
    IF ~connect THEN [result |-> <<>>, err |-> createError, target |-> t]
    ELSE IF t.dirty THEN [result |-> <<>>, err |-> dirtyError(t.version), target |-> t]
    ELSE LET r == IF steps > 0 THEN migSteps(t, -steps, failAt) ELSE migDown(t, failAt)
         IN  IF r.err # "" /\ r.err # "ErrNoChange"
             THEN [result |-> <<>>, err |-> <<"running migrations: ", r.err>>,
                   target |-> r.target]
             ELSE [result |-> << MigrationResult("down", t.version, r.target.version) >>,
                   err |-> <<>>, target |-> r.target]

\* Migrator.GetStatus(connStr, migrationsPath): (status, error)
MigratorGetStatus(t, connect) ==
    IF ~connect THEN [result |-> <<>>, err |-> createError, target |-> t]
    ELSE [result |-> << [Version |-> t.version, Dirty |-> t.dirty] >>,
          err |-> <<>>, target |-> t]

\* Migrator.Force(connStr, migrationsPath, version): error
MigratorForce(t, version, connect) ==
    IF ~connect THEN [result |-> <<>>, err |-> createError, target |-> t]
    ELSE LET r == migForce(t, version)
         IN  IF r.err # ""
             THEN [result |-> <<>>, err |-> <<"forcing version: ", r.err>>, target |-> r.target]
             ELSE [result |-> <<>>, err |-> <<>>, target |-> r.target]

-----------------------------------------------------------------------------
(* internal/discovery: FilterDatabases *)

EncoreDatabase(name) == [Name |-> name, MigrationsPath |-> <<"/app/">> \o name]

RECURSIVE firstNamed(_, _, _)
firstNamed(dbs, targetDB, i) ==
    IF i > Len(dbs) THEN <<>>
    ELSE IF dbs[i].Name = targetDB THEN << dbs[i] >>
    ELSE firstNamed(dbs, targetDB, i + 1)

FilterDatabases(dbs, targetDB) ==
    IF targetDB = <<>> THEN dbs ELSE firstNamed(dbs, targetDB, 1)

\* DeduplicateDatabases' loop from entry i on: seen is the set of names met so far.
RECURSIVE dedupFrom(_, _, _)
dedupFrom(dbs, i, seen) ==
    IF i > Len(dbs) THEN <<>>
    ELSE IF dbs[i].Name \in seen THEN dedupFrom(dbs, i + 1, seen)
    ELSE << dbs[i] >> \o dedupFrom(dbs, i + 1, seen \cup {dbs[i].Name})

\* A mutant: of the entries of one name the last one is kept.
DeduplicateKeepingLast(dbs) ==
    LET keep == {i \in 1..Len(dbs) : \A j \in (i + 1)..Len(dbs) : dbs[j].Name # dbs[i].Name}
        F[i \in 0..Len(dbs)] ==
            IF i = 0 THEN <<>> ELSE IF i \in keep THEN Append(F[i - 1], dbs[i]) ELSE F[i - 1]
    IN  F[Len(dbs)]

DeduplicateDatabases(dbs) == dedupFrom(dbs, 1, {})

-----------------------------------------------------------------------------
(* internal/discovery: ASTDiscoverer.  A path is the sequence of its         *)
(* components and a component is a string; in a name or a literal the pieces  *)
(* the scanner tests or cuts at (".", "_", "/", ".go", "_test.go", a quote)   *)
(* are elements of their own.  A source file is what go/parser makes of it:   *)
(* whether it parses, its import specs and its call expressions in the order  *)
(* ast.Inspect meets them.                                                    *)

encoreSQLDBImport == <<"encore.dev", "storage", "sqldb">>

\* An import spec: Path, and Name (<<>> when the spec has no name).
ImportSpec(path, name) == [Path |-> path, Name |-> name]

\* Expressions: a basic literal (token kind, source text), an identifier, a
\* composite literal (its elements: Key is <<>> when the element is not Key: Value).
BasicLit(kind, value) == [node |-> "BasicLit", Kind |-> kind, Value |-> value]
Ident(name) == [node |-> "Ident", Name |-> name]
KeyValue(key, value) == [Key |-> key, Value |-> value]
CompositeLit(elts) == [node |-> "CompositeLit", Elts |-> elts]
\* A call X.Sel(args); X is <<>> when the function is not a selector on an identifier.
CallExpr(x, sel, args) == [X |-> x, Sel |-> sel, Args |-> args]

GoFile(parses, imports, calls) == [parses |-> parses, Imports |-> imports, Calls |-> calls]
NoFile == GoFile(FALSE, <<>>, <<>>)

\* An entry of the walk: readErr tells that reading the directory fails.
DirEntry(path, isDir, readErr, file) ==
    [path |-> path, isDir |-> isDir, readErr |-> readErr, file |-> file]

\* types.EncoreDatabase, as a discoverer fills it.
Declared(name, migrationsPath, sourceFile) ==
    [Name |-> name, MigrationsPath |-> migrationsPath, SourceFile |-> sourceFile]

\* types.DiscoveryError
DiscoveryError(file, message, cause) == [File |-> file, Message |-> message, Cause |-> cause]

\* filepath.Dir of a path of components.
Dir(path) == IF path = <<>> THEN <<>> ELSE SubSeq(path, 1, Len(path) - 1)
Base(path) == IF path = <<>> THEN <<>> ELSE path[Len(path)]
IsPrefix(p, q) == Len(p) <= Len(q) /\ SubSeq(q, 1, Len(p)) = p

\* strings.Split(s, "/"): the pieces between the separators.
RECURSIVE SplitPath(_, _)
SplitPath(s, piece) ==
    IF s = <<>> THEN << piece >>
    ELSE IF Head(s) = "/" THEN << piece >> \o SplitPath(Tail(s), <<>>)
    ELSE SplitPath(Tail(s), Append(piece, Head(s)))

\* filepath.Clean of an absolute path: empty and "." components are dropped,
\* ".." removes the component before it (none at the root).
RECURSIVE Clean(_, _)
Clean(done, rest) ==
    IF rest = <<>> THEN done
    ELSE IF Head(rest) = <<>> \/ Head(rest) = <<".">> THEN Clean(done, Tail(rest))
    ELSE IF Head(rest) = <<"..">> THEN Clean(Dir(done), Tail(rest))
    ELSE Clean(Append(done, Head(rest)), Tail(rest))

\* filepath.Join(dir, elem) for an absolute dir: joined with a separator, then cleaned.
JoinPath(dir, elem) == Clean(<<>>, dir \o SplitPath(elem, <<>>))

\* A mutant: a blank or dot import counts as an import under the default name.
RECURSIVE findImportAliasDefaulting(_, _)
findImportAliasDefaulting(imports, importPath) ==
    IF imports = <<>> THEN <<>>
    ELSE LET imp == Head(imports)
         IN  IF imp.Path # importPath THEN findImportAliasDefaulting(Tail(imports), importPath)
             ELSE IF imp.Name # <<>> /\ imp.Name # <<".">> /\ imp.Name # <<"_">>
             THEN imp.Name
             ELSE << importPath[Len(importPath)] >>

\* findImportAlias(node, importPath): "" is <<>>.
RECURSIVE findImportAlias(_, _)
findImportAlias(imports, importPath) ==
    IF imports = <<>> THEN <<>>
    ELSE LET imp == Head(imports)
         IN  IF imp.Path # importPath THEN findImportAlias(Tail(imports), importPath)
             ELSE IF imp.Name # <<>>
             THEN IF imp.Name = <<".">> \/ imp.Name = <<"_">> THEN <<>> ELSE imp.Name
             ELSE << importPath[Len(importPath)] >>

\* A mutant: any selector call named NewDatabase is taken, whatever its receiver.
isNewDatabaseCallAnyReceiver(call, sqldbAlias) ==
    call.X # <<>> /\ call.Sel = "NewDatabase"

\* isNewDatabaseCall(call, sqldbAlias)
isNewDatabaseCall(call, sqldbAlias) ==
    call.X # <<>> /\ call.Sel = "NewDatabase" /\ call.X = sqldbAlias

\* The delimiter of a raw string literal.
BackQuote == "backquote"

\* extractStringLiteral(expr): (value, error)
extractStringLiteral(expr) ==
    IF expr.node # "BasicLit"
    THEN [value |-> <<>>, err |-> <<"expected string literal, got ", expr.node>>]
    ELSE IF expr.Kind # "STRING"
    THEN [value |-> <<>>, err |-> <<"expected string literal, got ", expr.Kind>>]
    ELSE LET value == expr.Value
             n     == Len(value)
         IN  IF n >= 2 /\ ((value[1] = "\"" /\ value[n] = "\"") \/ (value[1] = BackQuote /\ value[n] = BackQuote))
             THEN [value |-> SubSeq(value, 2, n - 1), err |-> <<>>]
             ELSE [value |-> value, err |-> <<>>]

RECURSIVE migrationsOf(_)
migrationsOf(elts) ==
    IF elts = <<>>
    THEN [value |-> <<>>, err |-> <<"Migrations field not found in DatabaseConfig">>]
    ELSE IF Head(elts).Key = <<"Migrations">> THEN extractStringLiteral(Head(elts).Value)
    ELSE migrationsOf(Tail(elts))

\* extractMigrationsPath(expr): (path, error)
extractMigrationsPath(expr) ==
    IF expr.node # "CompositeLit"
    THEN [value |-> <<>>,
          err |-> <<"expected composite literal for DatabaseConfig, got ", expr.node>>]
    ELSE migrationsOf(expr.Elts)

\* The diagnostic of a declaration whose migrations directory does not exist.
missingDirectory(filePath, absPath) ==
    DiscoveryError(filePath, <<"migrations directory does not exist: ", absPath>>, <<>>)

\* A mutant: a declaration whose migrations directory does not exist is an
\* extraction error.
extractDatabaseConfigRequiringDirectory(call, filePath, exists) ==
    IF Len(call.Args) < 2
    THEN [db |-> <<>>, errors |-> <<>>,
          err |-> <<"expected 2 arguments to NewDatabase, got ", Len(call.Args)>>]
    ELSE LET dbName == extractStringLiteral(call.Args[1])
             migrationsPath == extractMigrationsPath(call.Args[2])
             absPath == JoinPath(Dir(filePath), migrationsPath.value)
         IN  IF dbName.err # <<>>
             THEN [db |-> <<>>, errors |-> <<>>,
                   err |-> <<"extracting database name: ">> \o dbName.err]
             ELSE IF migrationsPath.err # <<>>
             THEN [db |-> <<>>, errors |-> <<>>,
                   err |-> <<"extracting migrations path: ">> \o migrationsPath.err]
             ELSE IF absPath \notin exists
             THEN [db |-> <<>>, errors |-> <<>>,
                   err |-> <<"migrations directory does not exist: ", absPath>>]
             ELSE [db |-> << Declared(dbName.value, absPath, filePath) >>,
                   errors |-> <<>>, err |-> <<>>]

\* extractDatabaseConfig(call, filePath): (db, error), and the diagnostics it
\* appends to d.Errors; exists is the set of paths os.Stat finds.
extractDatabaseConfig(call, filePath, exists) ==
    IF Len(call.Args) < 2
    THEN [db |-> <<>>, errors |-> <<>>,
          err |-> <<"expected 2 arguments to NewDatabase, got ", Len(call.Args)>>]
    ELSE LET dbName == extractStringLiteral(call.Args[1])
             migrationsPath == extractMigrationsPath(call.Args[2])
             absPath == JoinPath(Dir(filePath), migrationsPath.value)
         IN  IF dbName.err # <<>>
             THEN [db |-> <<>>, errors |-> <<>>,
                   err |-> <<"extracting database name: ">> \o dbName.err]
             ELSE IF migrationsPath.err # <<>>
             THEN [db |-> <<>>, errors |-> <<>>,
                   err |-> <<"extracting migrations path: ">> \o migrationsPath.err]
             ELSE [db |-> << Declared(dbName.value, absPath, filePath) >>,
                   errors |-> IF absPath \in exists THEN <<>>
                              ELSE << missingDirectory(filePath, absPath) >>,
                   err |-> <<>>]

\* The calls of a file, inspected from call i on: the declarations and the
\* diagnostics appended.
RECURSIVE inspectFrom(_, _, _, _, _)
inspectFrom(calls, i, sqldbAlias, filePath, exists) ==
    IF i > Len(calls) THEN [databases |-> <<>>, errors |-> <<>>]
    ELSE LET rest == inspectFrom(calls, i + 1, sqldbAlias, filePath, exists)
         IN  IF ~isNewDatabaseCall(calls[i], sqldbAlias) THEN rest
             ELSE LET e == extractDatabaseConfig(calls[i], filePath, exists)
                  IN  IF e.err # <<>>
                      THEN [databases |-> rest.databases,
                            errors |-> << DiscoveryError(filePath,
                                             <<"failed to extract database config">>, e.err) >>
                                       \o rest.errors]
                      ELSE [databases |-> e.db \o rest.databases,
                            errors |-> e.errors \o rest.errors]

\* parseFile(filePath): (databases, error), and the diagnostics it appends.
parseFile(file, filePath, exists) ==
    IF ~file.parses
    THEN [databases |-> <<>>, errors |-> <<>>, err |-> <<"syntax error">>]
    ELSE LET sqldbAlias == findImportAlias(file.Imports, encoreSQLDBImport)
         IN  IF sqldbAlias = <<>>
             THEN [databases |-> <<>>, errors |-> <<>>, err |-> <<>>]
             ELSE LET found == inspectFrom(file.Calls, 1, sqldbAlias, filePath, exists)
                  IN  [databases |-> found.databases, errors |-> found.errors, err |-> <<>>]


\* The directory names the walk does not descend into.
skipsDirectory(name) ==
    \/ name \in {<<"vendor">>, <<"testdata">>, <<"node_modules">>}
    \/ (name # <<>> /\ Head(name) \in {".", "_"})

\* strings.HasSuffix(path, ".go") and strings.HasSuffix(path, "_test.go")
hasGoSuffix(name) == name # <<>> /\ name[Len(name)] \in {".go", "_test.go"}
hasTestSuffix(name) == name # <<>> /\ name[Len(name)] = "_test.go"

\* The scanner before the walk.
NewScan ==
    [pc |-> "walk", idx |-> 1, skipped |-> {}, databases |-> <<>>, Errors |-> <<>>,
     err |-> <<>>, returned |-> <<>>]

\* WalkDir does not visit what lies below a directory for which the callback
\* returned SkipDir.
belowSkipped(d, path) == \E p \in d.skipped : IsPrefix(p, path) /\ p # path

\* The callback of filepath.WalkDir in Discover, on the next entry of the walk.
walkEntry(d, entry, exists) ==
    IF belowSkipped(d, entry.path) THEN [d EXCEPT !.idx = @ + 1]
    ELSE IF entry.isDir
    THEN IF skipsDirectory(Base(entry.path))
         THEN [d EXCEPT !.skipped = @ \cup {entry.path}, !.idx = @ + 1]
         ELSE IF entry.readErr
         THEN [d EXCEPT !.pc = "done",
                        !.err = <<"walking directory: ", "open ", entry.path>>]
         ELSE [d EXCEPT !.idx = @ + 1]
    ELSE IF ~hasGoSuffix(Base(entry.path)) THEN [d EXCEPT !.idx = @ + 1]
    ELSE IF hasTestSuffix(Base(entry.path)) THEN [d EXCEPT !.idx = @ + 1]
    ELSE LET f == parseFile(entry.file, entry.path, exists)
         IN  IF f.err # <<>>
             THEN [d EXCEPT !.Errors = Append(@, DiscoveryError(entry.path,
                                                    <<"failed to parse">>, f.err)),
                            !.idx = @ + 1]
             ELSE [d EXCEPT !.Errors = @ \o f.errors,
                            !.databases = @ \o f.databases,
                            !.idx = @ + 1]

\* Discover after the walk: it returns the databases.
finishWalk(d) == [d EXCEPT !.pc = "done", !.returned = d.databases]

-----------------------------------------------------------------------------
(* internal/config: LoadManifest, and the manifest discoverer *)

ManifestDatabase(name, migrations) == [Name |-> name, Migrations |-> migrations]

\* The manifest file: whether it can be read and parsed, and its databases.
Manifest(status, dbs) == [status |-> status, Databases |-> dbs]

\* filepath.IsAbs(path)
IsAbs(path) == path # <<>> /\ Head(path) = "/"

\* The path LoadManifest checks and returns for an entry: an absolute path as
\* it is written, a relative one joined to the root directory.
manifestPathOf(migrations, rootDir) ==
    IF IsAbs(migrations) THEN Tail(SplitPath(migrations, <<>>))
    ELSE JoinPath(rootDir, migrations)

\* os.Stat finds the path: the file system resolves "." and ".." in it.
statFinds(path, exists) == Clean(<<>>, path) \in exists

manifestFile == << <<"srv">>, <<"encore-databases", ".yaml">> >>

\* A mutant of the loop: an entry whose directory does not exist is left out.
RECURSIVE loadFromSkippingMissing(_, _, _, _, _)
loadFromSkippingMissing(dbs, i, rootDir, exists, accepted) ==
    IF i > Len(dbs) THEN [databases |-> accepted, err |-> <<>>]
    ELSE LET db == dbs[i]
             migrationsPath == manifestPathOf(db.Migrations, rootDir)
         IN  IF db.Name = <<>>
             THEN [databases |-> <<>>, err |-> <<"manifest database entry missing name">>]
             ELSE IF db.Migrations = <<>>
             THEN [databases |-> <<>>,
                   err |-> <<"manifest database ">> \o Quote(db.Name)
                           \o <<" missing migrations path">>]
             ELSE IF ~statFinds(migrationsPath, exists)
             THEN loadFromSkippingMissing(dbs, i + 1, rootDir, exists, accepted)
             ELSE loadFromSkippingMissing(dbs, i + 1, rootDir, exists,
                      Append(accepted, Declared(db.Name, migrationsPath, manifestFile)))

\* The loop of LoadManifest from entry i on; accepted holds the entries appended so far.
RECURSIVE loadFrom(_, _, _, _, _)
loadFrom(dbs, i, rootDir, exists, accepted) ==
    IF i > Len(dbs) THEN [databases |-> accepted, err |-> <<>>]
    ELSE LET db == dbs[i]
             migrationsPath == manifestPathOf(db.Migrations, rootDir)
         IN  IF db.Name = <<>>
             THEN [databases |-> <<>>, err |-> <<"manifest database entry missing name">>]
             ELSE IF db.Migrations = <<>>
             THEN [databases |-> <<>>,
                   err |-> <<"manifest database ">> \o Quote(db.Name)
                           \o <<" missing migrations path">>]
             ELSE IF ~statFinds(migrationsPath, exists)
             THEN [databases |-> <<>>,
                   err |-> <<"migrations directory for ">> \o Quote(db.Name)
                           \o <<" does not exist: ", migrationsPath>>]
             ELSE loadFrom(dbs, i + 1, rootDir, exists,
                           Append(accepted, Declared(db.Name, migrationsPath, manifestFile)))

\* LoadManifest(manifestPath, rootDir): (databases, error)
LoadManifest(m, rootDir, exists) ==
    IF m.status = "unreadable"
    THEN [databases |-> <<>>, err |-> <<"reading manifest: ", "no such file">>]
    ELSE IF m.status = "malformed"
    THEN [databases |-> <<>>, err |-> <<"parsing YAML manifest: ", "syntax error">>]
    ELSE IF Len(m.Databases) = 0
    THEN [databases |-> <<>>, err |-> <<"manifest contains no databases">>]
    ELSE loadFrom(m.Databases, 1, rootDir, exists, <<>>)

\* manifestDiscoverer.Discover(rootPath): (databases, error)
manifestDiscover(m, rootPath, exists) ==
    LET l == LoadManifest(m, rootPath, exists)
    IN  IF l.err # <<>> THEN [databases |-> <<>>, err |-> <<"loading manifest: ">> \o l.err]
        ELSE [databases |-> l.databases, err |-> <<>>]

-----------------------------------------------------------------------------
(* cmd/migrate: applyConnectionOverrides, runMigrations, showStatus *)

\* discovery.New(opts).Discover(rootPath): the manifest discoverer when a
\* manifest path is given, the source scanner otherwise.
RECURSIVE walkAll(_, _)
walkAll(d, fs) ==
    IF d.pc = "done" THEN d
    ELSE IF d.idx > Len(fs.entries) THEN finishWalk(d)
    ELSE walkAll(walkEntry(d, fs.entries[d.idx], fs.exists), fs)

astDiscover(fs) ==
    LET d == walkAll(NewScan, fs) IN [databases |-> d.returned, err |-> d.err]

Discover(opts, m, fs) ==
    IF opts.ManifestPath # <<>> THEN manifestDiscover(m, fs.root, fs.exists)
    ELSE astDiscover(fs)

\* loadConfigAndDiscover(cmd): the discovered list is deduplicated.
loadConfigAndDiscover(r, found) ==
    IF found.err # <<>>
    THEN [run |-> [r EXCEPT !.pc = "done", !.err = <<"discovering databases: ">> \o found.err],
          databases |-> <<>>]
    ELSE [run |-> [r EXCEPT !.pc = "start"],
          databases |-> DeduplicateDatabases(found.databases)]

\* listDatabases: the discovered list is printed as it is.
listDatabases(r, found) ==
    IF found.err # <<>>
    THEN [run |-> [r EXCEPT !.pc = "done", !.err = <<"discovering databases: ">> \o found.err],
          databases |-> <<>>]
    ELSE LET dbs == found.databases
         IN  [run |-> [r EXCEPT !.pc = "done",
                                !.stdout = IF Len(dbs) = 0 THEN << <<"No databases found.">> >>
                                           ELSE [k \in 1..Len(dbs) |->
                                                   <<dbs[k].Name, dbs[k].MigrationsPath>>]],
               databases |-> dbs]

\* A mutant of applyConnectionOverrides: a host override without a port clears
\* the resolved port.
applyConnectionOverridesClearingPort(c, mapping) ==
    LET idx == LastIndex(c.host, ":")
        m1  == IF c.host = <<>> THEN mapping
               ELSE IF idx # 0
               THEN [mapping EXCEPT !.Host = SubSeq(c.host, 1, idx - 1),
                                    !.Port = SubSeq(c.host, idx + 1, Len(c.host))]
               ELSE [mapping EXCEPT !.Host = c.host, !.Port = <<>>]
        m2  == IF c.user = <<>> THEN m1 ELSE [m1 EXCEPT !.Username = c.user]
    IN  IF c.password = <<>> THEN m2 ELSE [m2 EXCEPT !.Password = c.password]

\* applyConnectionOverrides(cmd, mapping): the mapping after the --host, --user
\* and --password flags were applied.
applyConnectionOverrides(c, mapping) ==
    LET idx == LastIndex(c.host, ":")
        m1  == IF c.host = <<>> THEN mapping
               ELSE IF idx # 0
               THEN [mapping EXCEPT !.Host = SubSeq(c.host, 1, idx - 1),
                                    !.Port = SubSeq(c.host, idx + 1, Len(c.host))]
               ELSE [mapping EXCEPT !.Host = c.host]
        m2  == IF c.user = <<>> THEN m1 ELSE [m1 EXCEPT !.Username = c.user]
    IN  IF c.password = <<>> THEN m2 ELSE [m2 EXCEPT !.Password = c.password]

\* strings.Join(elems, sep)
RECURSIVE Join(_, _)
Join(elems, sep) ==
    IF elems = <<>> THEN <<>>
    ELSE IF Len(elems) = 1 THEN elems[1]
    ELSE elems[1] \o <<sep>> \o Join(Tail(elems), sep)

\* The locals of a command that has not started its loop.
NewRun ==
    [pc |-> "start", idx |-> 1, errs |-> <<>>, stderr |-> <<>>, stdout |-> <<>>,
     calls |-> <<>>, err |-> <<>>]

\* An invocation of the engine, with what it returned.
EngineCall(op, db, str, steps, ret) ==
    [op |-> op, db |-> db.Name, connStr |-> str, path |-> db.MigrationsPath,
     steps |-> steps, err |-> ret.err]

\* The filter of the --database flag and the two emptiness checks that precede
\* the loop: the filtered list, and the error returned when it is empty.
filtered(c, dbs) ==
    LET kept == FilterDatabases(dbs, c.database)
    IN  IF c.database # <<>> /\ Len(kept) = 0
        THEN [databases |-> kept,
              err |-> <<"database ">> \o Quote(c.database) \o <<" not found">>]
        ELSE IF Len(kept) = 0
        THEN [databases |-> kept, err |-> <<"no databases found">>]
        ELSE [databases |-> kept, err |-> <<>>]

\* runMigrations: GetMapping failed for db; the database is skipped with a warning.
\* A mutant: the skip is recorded as one of the run's errors.
onConfigErrorRecorded(r, db, err) ==
    [r EXCEPT !.stderr = Append(@, <<"Warning: skipping ">> \o Quote(db.Name)
                                    \o <<": ">> \o err),
              !.errs = Append(@, db.Name \o <<": ">> \o err),
              !.idx = @ + 1]

onConfigError(r, db, err) ==
    [r EXCEPT !.stderr = Append(@, <<"Warning: skipping ">> \o Quote(db.Name)
                                    \o <<": ">> \o err),
              !.idx = @ + 1]

\* runMigrations: BuildConnectionString failed for db; the command returns.
onBuildError(r, db, err) ==
    [r EXCEPT !.err = <<"building connection string for ">> \o Quote(db.Name)
                      \o <<": ">> \o err,
              !.pc = "done"]

\* runMigrations: the engine was called for db and returned ret.
onMigrated(r, db, mapping, call, ret) ==
    LET migrating == <<"Migrating ">> \o Quote(db.Name) \o <<" (">> \o mapping.PGDBName
                     \o <<")...">>
    IN  IF ret.err # <<>>
        THEN [r EXCEPT !.calls = Append(@, call),
                       !.stdout = Append(@, migrating),
                       !.errs = Append(@, db.Name \o <<": ">> \o ret.err),
                       !.stderr = Append(@, <<"  Error: ">> \o ret.err),
                       !.idx = @ + 1]
        ELSE [r EXCEPT !.calls = Append(@, call),
                       !.stdout = Append(Append(@, migrating),
                           IF ret.result[1].VersionBefore = ret.result[1].VersionAfter
                           THEN <<"  No changes (version ",
                                  ToString(ret.result[1].VersionAfter), ")">>
                           ELSE <<"  Version: ", ToString(ret.result[1].VersionBefore),
                                  " -> ", ToString(ret.result[1].VersionAfter)>>),
                       !.idx = @ + 1]

\* The steps argument runMigrations passes to the engine.
stepsArg(c) == IF c.name = "down" /\ c.all THEN 0 ELSE c.steps

\* One iteration of runMigrations' loop, for db: the locals and the target after it.
migrateOne(c, servers, e, db, r, t, connect, failAt) ==
    LET m == GetMapping(servers, e, db.Name)
    IN  IF m.err # <<>> THEN [run |-> onConfigError(r, db, m.err), target |-> t]
        ELSE LET mapping == applyConnectionOverrides(c, m.mapping[1])
                 cs      == BuildConnectionString(mapping)
                 steps   == stepsArg(c)
                 ret     == IF c.name = "up" THEN MigratorUp(t, steps, connect, failAt)
                            ELSE MigratorDown(t, steps, connect, failAt)
             IN  IF cs.err # <<>> THEN [run |-> onBuildError(r, db, cs.err), target |-> t]
                 ELSE [run |-> onMigrated(r, db, mapping,
                                  EngineCall(c.name, db, cs.str, steps, ret), ret),
                       target |-> ret.target]

\* runMigrations after the loop: the aggregated error, or nil.
finishMigrations(r) ==
    [r EXCEPT !.pc = "done",
              !.err = IF Len(r.errs) > 0
                      THEN <<"migration errors:\n  ">> \o Join(r.errs, "\n  ")
                      ELSE <<>>]

\* One row of showStatus' table.
statusRow(name, pg, version, dirty) == <<name, pg, version, dirty>>

\* One iteration of showStatus' loop, for db.
statusOne(c, servers, e, db, r, t, connect) ==
    LET m == GetMapping(servers, e, db.Name)
    IN  IF m.err # <<>>
        THEN [r EXCEPT !.stdout = Append(@, statusRow(db.Name, <<"N/A">>, <<"error">>, m.err)),
                       !.idx = @ + 1]
        ELSE LET mapping == applyConnectionOverrides(c, m.mapping[1])
                 cs      == BuildConnectionString(mapping)
                 ret     == MigratorGetStatus(t, connect)
                 call    == EngineCall("status", db, cs.str, 0, ret)
             IN  IF cs.err # <<>>
                 THEN [r EXCEPT !.stdout = Append(@, statusRow(db.Name, mapping.PGDBName,
                                                               <<"error">>, cs.err)),
                                !.idx = @ + 1]
                 ELSE IF ret.err # <<>>
                 THEN [r EXCEPT !.calls = Append(@, call),
                                !.stdout = Append(@, statusRow(db.Name, mapping.PGDBName,
                                                               <<"error">>, ret.err)),
                                !.idx = @ + 1]
                 ELSE [r EXCEPT !.calls = Append(@, call),
                                !.stdout = Append(@, statusRow(db.Name, mapping.PGDBName,
                                               <<ToString(ret.result[1].Version)>>,
                                               IF ret.result[1].Dirty THEN <<"YES">>
                                               ELSE <<"no">>)),
                                !.idx = @ + 1]

\* forceVersion: the filter, the descriptor, the connection string and the
\* engine's Force for the first database left; the locals, the list and the
\* target after it.
forceVersion(c, servers, e, dbs, r, ts, connect) ==
    LET kept == FilterDatabases(dbs, c.database)
        done == [r EXCEPT !.pc = "done"]
    IN  IF Len(kept) = 0
        THEN [run |-> [done EXCEPT !.err = <<"database ">> \o Quote(c.database)
                                          \o <<" not found">>],
              databases |-> kept, targets |-> ts]
        ELSE
        LET db == kept[1]
            m  == GetMapping(servers, e, db.Name)
        IN  IF m.err # <<>>
            THEN [run |-> [done EXCEPT !.err = <<"getting config for ">> \o Quote(db.Name)
                                              \o <<": ">> \o m.err],
                  databases |-> kept, targets |-> ts]
            ELSE
            LET mapping == applyConnectionOverrides(c, m.mapping[1])
                cs      == BuildConnectionString(mapping)
                ret     == MigratorForce(ts[db.Name], c.version, connect)
                call    == EngineCall("force", db, cs.str, 0, ret)
            IN  IF cs.err # <<>>
                THEN [run |-> [done EXCEPT !.err = <<"building connection string: ">>
                                                  \o cs.err],
                      databases |-> kept, targets |-> ts]
                ELSE IF ret.err # <<>>
                THEN [run |-> [done EXCEPT !.calls = Append(@, call),
                                           !.err = <<"forcing version: ">> \o ret.err],
                      databases |-> kept,
                      targets |-> [ts EXCEPT ![db.Name] = ret.target]]
                ELSE [run |-> [done EXCEPT !.calls = Append(@, call),
                                           !.stdout = Append(@, <<"Forced ">> \o Quote(db.Name)
                                               \o <<" to version ", ToString(c.version)>>)],
                      databases |-> kept,
                      targets |-> [ts EXCEPT ![db.Name] = ret.target]]

\* The iteration for db reaches the engine: its configuration resolves and the
\* descriptor gives a connection string.
reachesEngine(c, servers, e, db) ==
    LET m == GetMapping(servers, e, db.Name)
    IN  /\ m.err = <<>>
        /\ BuildConnectionString(applyConnectionOverrides(c, m.mapping[1])).err = <<>>

\* migrate.New(sourceURL, connStr): the connections open after it.
openEngine(open, name, connect) == IF connect THEN open \cup {name} ELSE open

\* A mutant: the Migrator's method returns without closing the engine.
closeEngineLeaking(open, name, connect) == open

\* defer mig.Close(), registered when migrate.New succeeded: the connections
\* open after the Migrator's method has returned.
closeEngine(open, name, connect) == IF connect THEN open \ {name} ELSE open

-----------------------------------------------------------------------------
(* The configuration documents and environments the resolver is run on *)

NoTLS == <<>>
TLS(disabled, cert) ==
    << [Disabled |-> disabled,
        ClientCert |-> IF cert THEN << [Cert |-> <<"c">>, Key |-> <<"k">>] >> ELSE <<>>] >>
TLSConfigs == {NoTLS} \cup {TLS(d, c) : d \in BOOLEAN, c \in BOOLEAN}

EnvVars == {<<"U">>, <<"P">>, <<"N">>}
EnvValues == {<<>>, <<"s">>}
Envs == [EnvVars -> EnvValues]

\* Logical names declared in configuration documents, and names asked for.
Names == {<<"a">>, <<"b">>}
Queries == Names \cup {<<"c">>, <<"a", "b">>}

DatabaseConfig(name, username, password) ==
    [Name |-> name, Username |-> username, Password |-> password]

\* Every combination of literal, empty and indirected fields.
AllDatabaseConfigs ==
    {DatabaseConfig(n, u, p) :
        n \in {Literal(<<>>), Literal(<<"n">>), EnvRef(<<"N">>)},
        u \in {Literal(<<>>), Literal(<<"u">>), EnvRef(<<"U">>)},
        p \in {Literal(<<>>), Literal(<<"p">>), EnvRef(<<"P">>)}}

\* Two entries that differ in every resolved field, one of them indirected.
FewDatabaseConfigs ==
    {DatabaseConfig(Literal(<<"n">>), Literal(<<"u">>), Literal(<<"p">>)),
     DatabaseConfig(Literal(<<>>), EnvRef(<<"U">>), Literal(<<"q">>))}

DatabaseMaps(names, configs) ==
    UNION {[D -> configs] : D \in SUBSET names}

SQLServer(host, tls, dbs) == [Host |-> host, TLSConfig |-> tls, Databases |-> dbs]

\* One server, every shape of TLS block and of database entry.
OneServerConfigs ==
    {<< SQLServer(h, t, d) >> :
        h \in {<<"h">>, <<"h", ":", "7">>},
        t \in TLSConfigs,
        d \in DatabaseMaps({<<"a">>}, AllDatabaseConfigs)}

\* Up to MaxServers servers that may declare the same names.
FewServers ==
    {SQLServer(h, t, d) :
        h \in {<<"h">>, <<"g", ":", "7">>},
        t \in {NoTLS},
        d \in DatabaseMaps(Names, FewDatabaseConfigs)}

RECURSIVE SeqsUpTo(_, _)
SeqsUpTo(S, n) ==
    IF n = 0 THEN {<<>>}
    ELSE LET shorter == SeqsUpTo(S, n - 1)
         IN  shorter \cup {Append(q, x) : q \in shorter, x \in S}

ManyServerConfigs == SeqsUpTo(FewServers, MaxServers)

\* One server whose host is any string over the alphabet, for the host/port split.
HostAlphabet == {"h", ":", "7"}
HostConfigs ==
    {<< SQLServer(h, NoTLS,
           [n \in {<<"a">>} |->
               DatabaseConfig(Literal(<<>>), Literal(<<"u">>), EnvRef(<<"P">>))]) >> :
        h \in StringsUpTo(HostAlphabet, MaxHostLen)}

NoResult == [mapping |-> <<>>, err |-> <<>>]

DatabaseMapping(encoreName, pgDBName, host, port, username, password, sslMode) ==
    [EncoreName |-> encoreName, PGDBName |-> pgDBName, Host |-> host, Port |-> port,
     Username |-> username, Password |-> password, SSLMode |-> sslMode]

NoDescriptor == DatabaseMapping(<<>>, <<>>, <<>>, <<>>, <<>>, <<>>, "")

\* Descriptors for connection-string construction: every username and password
\* over the alphabet with the other fields set, and every combination of empty
\* and set fields around one username and password.
CredAlphabet == {"a", "@", ":", "/", " ", "+", "%"}
Descriptors ==
    {DatabaseMapping(<<"a">>, <<"d">>, <<"h">>, <<"7">>, u, p, "disable") :
        u \in StringsUpTo(CredAlphabet, MaxCredLen),
        p \in StringsUpTo(CredAlphabet, MaxCredLen)}
    \cup
    {DatabaseMapping(<<"a">>, d, h, port, u, <<"p">>, m) :
        d \in {<<>>, <<"d">>}, h \in {<<>>, <<"h">>}, port \in {<<>>, <<"7">>},
        u \in {<<>>, <<"u">>}, m \in {"", "require"}}

-----------------------------------------------------------------------------
(* Command lines, and the values of the variables a state machine does not use *)

Command(name, database, steps, all, o) ==
    [name |-> name, database |-> database, steps |-> steps, all |-> all,
     host |-> o.host, user |-> o.user, password |-> o.password]

Overrides ==
    {[host |-> <<>>, user |-> <<>>, password |-> <<>>],
     [host |-> <<>>, user |-> <<"w">>, password |-> <<>>],
     [host |-> <<"x", ":", "9">>, user |-> <<>>, password |-> <<"r">>]}

\* up [--steps n], down [--steps n] [--all] (steps defaults to 1), status.
Commands ==
    {Command("up", d, n, FALSE, o) : d \in {<<>>, <<"a">>}, n \in {0, 1}, o \in Overrides}
    \cup {Command("down", d, 1, a, o) : d \in {<<>>, <<"a">>}, a \in BOOLEAN, o \in Overrides}
    \cup {Command("status", d, 0, FALSE, o) : d \in {<<>>, <<"a">>}, o \in Overrides}

NoCall == [op |-> "none", steps |-> 0, version |-> 0, connect |-> FALSE,
           before |-> CleanTarget(0), result |-> <<>>, err |-> <<>>]

IdleRun ==
    /\ cmd = Command("none", <<>>, 0, FALSE, [host |-> <<>>, user |-> <<>>, password |-> <<>>])
    /\ databases = <<>>
    /\ run = [NewRun EXCEPT !.pc = "idle"]

IdleEngine ==
    /\ targets = <<>>
    /\ last = NoCall

NoFsys == [root |-> <<>>, entries |-> <<>>, exists |-> {}]

NoDisc == [pc |-> "idle"]

IdleDisc ==
    /\ fsys = NoFsys
    /\ manifest = <<>>
    /\ disc = NoDisc

-----------------------------------------------------------------------------
(* The resolver as a state machine: the document is loaded once            *)
(* (LoadInfraConfig), then GetMapping is called while the environment      *)
(* may change between the calls.                                            *)

InitResolve ==
    /\ config \in OneServerConfigs \cup ManyServerConfigs
    /\ env \in Envs
    /\ query = <<>>
    /\ result = NoResult
    /\ descriptor = NoDescriptor
    /\ connStr = noConnStr
    /\ history = <<>>
    /\ conns = {}
    /\ IdleRun
    /\ IdleDisc
    /\ IdleEngine

InitHostPort ==
    /\ config \in HostConfigs
    /\ env \in Envs
    /\ query = <<>>
    /\ result = NoResult
    /\ descriptor = NoDescriptor
    /\ connStr = noConnStr
    /\ history = <<>>
    /\ conns = {}
    /\ IdleRun
    /\ IdleDisc
    /\ IdleEngine

\* The environment sets or unsets a variable (read by os.Getenv in Resolve).
\* The value returned by an history call is no longer held by anyone.
Setenv ==
    \E n \in EnvVars, v \in EnvValues :
        /\ env' = [env EXCEPT ![n] = v]
        /\ query' = <<>>
        /\ result' = NoResult
        /\ UNCHANGED <<history, conns, discVars, config, connVars, runVars, engineVars>>

\* A call c.GetMapping(encoreName).
CallGetMapping ==
    \E encoreName \in Queries :
        /\ query' = encoreName
        /\ result' = GetMapping(config, env, encoreName)
        /\ UNCHANGED <<history, conns, discVars, config, env, connVars, runVars, engineVars>>

NextResolve == Setenv \/ CallGetMapping

SpecResolve == InitResolve /\ [][NextResolve]_vars

SpecHostPort == InitHostPort /\ [][NextResolve]_vars

-----------------------------------------------------------------------------
(* Connection-string construction on its own *)

InitConnStr ==
    /\ config = <<>>
    /\ env = [n \in EnvVars |-> <<>>]
    /\ query = <<>>
    /\ result = NoResult
    /\ descriptor \in Descriptors
    /\ connStr = noConnStr
    /\ history = <<>>
    /\ conns = {}
    /\ IdleRun
    /\ IdleDisc
    /\ IdleEngine

\* A call migration.BuildConnectionString(mapping).
CallBuildConnectionString ==
    /\ connStr = noConnStr
    /\ connStr' = BuildConnectionString(descriptor)
    /\ UNCHANGED <<history, conns, discVars, resolveVars, descriptor, runVars, engineVars>>

NextConnStr == CallBuildConnectionString

SpecConnStr == InitConnStr /\ [][NextConnStr]_vars

-----------------------------------------------------------------------------
(* The commands up, down and status as a state machine: discovery has       *)
(* produced the deduplicated list, the command filters it and loops over it, *)
(* one iteration per step.                                                   *)

\* The document of the runs: "a" and "g" resolve, "a" is declared by both
\* servers, "b" is declared by none, "c" needs the variable U and "d" has an
\* empty username.
RunConfig ==
    << SQLServer(<<"h", ":", "7">>, NoTLS,
          (<<"a">> :> DatabaseConfig(Literal(<<"n">>), Literal(<<"u">>), Literal(<<"p">>)))
          @@ (<<"c">> :> DatabaseConfig(Literal(<<>>), EnvRef(<<"U">>), Literal(<<"p">>)))
          @@ (<<"d">> :> DatabaseConfig(Literal(<<>>), Literal(<<>>), Literal(<<"p">>)))),
       SQLServer(<<"g">>, TLS(FALSE, TRUE),
          (<<"g">> :> DatabaseConfig(Literal(<<>>), Literal(<<"u">>), EnvRef(<<"P">>)))
          @@ (<<"a">> :> DatabaseConfig(Literal(<<"x">>), Literal(<<"x">>), Literal(<<"x">>)))) >>

RunNames == {<<"a">>, <<"b">>, <<"c">>, <<"d">>, <<"g">>}

RunEnvs == {[n \in EnvVars |-> IF n = <<"P">> \/ (n = <<"U">> /\ u) THEN <<"s">> ELSE <<>>] :
               u \in BOOLEAN}

\* Lists of at most n databases with distinct names, as DeduplicateDatabases leaves them.
RECURSIVE DistinctLists(_)
DistinctLists(n) ==
    IF n = 0 THEN {<<>>}
    ELSE LET shorter == DistinctLists(n - 1)
         IN  shorter \cup
             UNION {{Append(q, EncoreDatabase(x)) :
                        x \in {y \in RunNames : \A i \in 1..Len(q) : q[i].Name # y}} :
                    q \in shorter}

InitRun ==
    /\ config = RunConfig
    /\ env \in RunEnvs
    /\ query = <<>>
    /\ result = NoResult
    /\ descriptor = NoDescriptor
    /\ connStr = noConnStr
    /\ history = <<>>
    /\ conns = {}
    /\ cmd \in Commands
    /\ databases \in DistinctLists(MaxDatabases)
    /\ run = NewRun
    /\ targets \in {[n \in RunNames |-> IF n = <<"a">> THEN t ELSE CleanTarget(1)] :
                       t \in {CleanTarget(0), CleanTarget(1), [version |-> 1, dirty |-> TRUE]}}
    /\ last = NoCall
    /\ IdleDisc

\* The command filters the list by --database and checks that it is not empty.
StartRun ==
    /\ run.pc = "start"
    /\ LET f == filtered(cmd, databases)
       IN  /\ databases' = f.databases
           /\ run' = IF f.err # <<>> THEN [run EXCEPT !.pc = "done", !.err = f.err]
                     ELSE [run EXCEPT !.pc = "loop"]
    /\ UNCHANGED <<history, conns, discVars, resolveVars, connVars, cmd, engineVars>>

\* One iteration of runMigrations' loop.
MigrateDatabase ==
    /\ run.pc = "loop"
    /\ cmd.name \in {"up", "down"}
    /\ run.idx <= Len(databases)
    /\ \E connect \in BOOLEAN, failAt \in 0..MaxSteps :
          LET db == databases[run.idx]
              o  == migrateOne(cmd, config, env, db, run, targets[db.Name], connect, failAt)
          IN  /\ run' = o.run
              /\ targets' = [targets EXCEPT ![db.Name] = o.target]
    /\ UNCHANGED <<history, conns, discVars, resolveVars, connVars, cmd, databases, last>>

\* runMigrations after its loop.
FinishMigrations ==
    /\ run.pc = "loop"
    /\ cmd.name \in {"up", "down"}
    /\ run.idx > Len(databases)
    /\ run' = finishMigrations(run)
    /\ UNCHANGED <<history, conns, discVars, resolveVars, connVars, cmd, databases, engineVars>>

\* One iteration of showStatus' loop.
StatusDatabase ==
    /\ run.pc = "loop"
    /\ cmd.name = "status"
    /\ run.idx <= Len(databases)
    /\ \E connect \in BOOLEAN :
          LET db == databases[run.idx]
          IN  run' = statusOne(cmd, config, env, db, run, targets[db.Name], connect)
    /\ UNCHANGED <<history, conns, discVars, resolveVars, connVars, cmd, databases, engineVars>>

\* showStatus after its loop: it returns nil.
FinishStatus ==
    /\ run.pc = "loop"
    /\ cmd.name = "status"
    /\ run.idx > Len(databases)
    /\ run' = [run EXCEPT !.pc = "done"]
    /\ UNCHANGED <<history, conns, discVars, resolveVars, connVars, cmd, databases, engineVars>>

NextRun ==
    StartRun \/ MigrateDatabase \/ FinishMigrations \/ StatusDatabase \/ FinishStatus

SpecRun == InitRun /\ [][NextRun]_vars

-----------------------------------------------------------------------------
(* The commands up, down and status with the engine's connection in view:   *)
(* an iteration that reaches the engine is two steps, the creation of the   *)
(* engine instance and the rest of the Migrator's method up to its return.  *)

SequentialCommands ==
    {c \in Commands : c.host = <<>> /\ c.user = <<>> /\ c.password = <<>>}

InitSequential ==
    /\ config = RunConfig
    /\ env \in RunEnvs
    /\ query = <<>>
    /\ result = NoResult
    /\ descriptor = NoDescriptor
    /\ connStr = noConnStr
    /\ history = <<>>
    /\ conns = {}
    /\ cmd \in SequentialCommands
    /\ databases \in DistinctLists(MaxDatabases)
    /\ run = NewRun
    /\ targets \in {[n \in RunNames |-> IF n = <<"a">> THEN t ELSE CleanTarget(1)] :
                       t \in {CleanTarget(0), [version |-> 1, dirty |-> TRUE]}}
    /\ last = NoCall
    /\ IdleDisc

\* The iteration for databases[run.idx] up to migrate.New: a database that
\* does not reach the engine is done with in this step.
OpenEngine ==
    /\ run.pc = "loop"
    /\ run.idx <= Len(databases)
    /\ LET db == databases[run.idx]
       IN  IF reachesEngine(cmd, config, env, db)
           THEN \E connect \in BOOLEAN :
                   /\ run' = [run EXCEPT !.pc = "engine"]
                   /\ conns' = openEngine(conns, db.Name, connect)
                   /\ last' = [NoCall EXCEPT !.op = cmd.name, !.connect = connect]
           ELSE /\ run' = IF cmd.name = "status"
                          THEN statusOne(cmd, config, env, db, run, targets[db.Name], TRUE)
                          ELSE migrateOne(cmd, config, env, db, run, targets[db.Name],
                                          TRUE, 0).run
                /\ UNCHANGED <<conns, last>>
    /\ UNCHANGED <<history, discVars, resolveVars, connVars, cmd, databases, targets>>

\* The rest of the Migrator's method and of the iteration: the engine runs,
\* the deferred Close runs, the outcome is recorded.
RunEngineAndClose ==
    /\ run.pc = "engine"
    /\ \E failAt \in 0..MaxSteps :
          LET db == databases[run.idx]
              r  == [run EXCEPT !.pc = "loop"]
          IN  IF cmd.name = "status"
              THEN /\ run' = statusOne(cmd, config, env, db, r, targets[db.Name],
                                       last.connect)
                   /\ UNCHANGED targets
              ELSE LET o == migrateOne(cmd, config, env, db, r, targets[db.Name],
                                       last.connect, failAt)
                   IN  /\ run' = o.run
                       /\ targets' = [targets EXCEPT ![db.Name] = o.target]
    /\ conns' = closeEngine(conns, databases[run.idx].Name, last.connect)
    /\ last' = NoCall
    /\ UNCHANGED <<history, discVars, resolveVars, connVars, cmd, databases>>

NextSequential ==
    StartRun \/ OpenEngine \/ RunEngineAndClose \/ FinishMigrations \/ FinishStatus

SpecSequential == InitSequential /\ [][NextSequential]_vars

-----------------------------------------------------------------------------
(* The commands up, down, status and force on descriptors that may lack a   *)
(* host or a username, and BuildConnectionString called on its own on       *)
(* descriptors that lack any of their fields.                               *)

\* force --database d --version v
ForceCommand(database, version, o) ==
    [name |-> "force", database |-> database, steps |-> 0, all |-> FALSE,
     host |-> o.host, user |-> o.user, password |-> o.password, version |-> version]

\* No override, a --host value with an empty host, one with an empty port,
\* and a --user value.
GuardOverrides ==
    {[host |-> h, user |-> u, password |-> <<>>] :
        h \in {<<>>, <<":", "9">>, <<"x", ":">>}, u \in {<<>>, <<"w">>}}

GuardCommands ==
    {Command(name, d, IF name = "down" THEN 1 ELSE 0, FALSE, o) :
        name \in {"up", "down", "status"}, d \in {<<>>, <<"d">>}, o \in GuardOverrides}
    \cup {ForceCommand(d, 1, o) : d \in {<<"a">>, <<"d">>, <<"b">>}, o \in GuardOverrides}

GuardDescriptors ==
    {DatabaseMapping(<<"a">>, d, h, port, u, <<"p">>, m) :
        d \in {<<>>, <<"d">>}, h \in {<<>>, <<"h">>}, port \in {<<>>, <<"7">>},
        u \in {<<>>, <<"u">>}, m \in {"", "require"}}

InitGuard ==
    /\ config = RunConfig
    /\ env \in RunEnvs
    /\ query = <<>>
    /\ result = NoResult
    /\ connStr = noConnStr
    /\ history = <<>>
    /\ conns = {}
    /\ last = NoCall
    /\ IdleDisc
    /\ targets = [n \in RunNames |-> CleanTarget(1)]
    /\ \/ /\ descriptor = NoDescriptor
          /\ cmd \in GuardCommands
          /\ databases \in DistinctLists(2)
          /\ run = NewRun
       \/ /\ descriptor \in GuardDescriptors
          /\ IdleRun

\* The force command.
ForceVersion ==
    /\ run.pc = "start"
    /\ cmd.name = "force"
    /\ \E connect \in BOOLEAN :
          LET o == forceVersion(cmd, config, env, databases, run, targets, connect)
          IN  /\ run' = o.run
              /\ databases' = o.databases
              /\ targets' = o.targets
    /\ UNCHANGED <<history, conns, discVars, resolveVars, connVars, cmd, last>>

\* up, down and status: the filter before the loop.
StartLoop == cmd.name \in {"up", "down", "status"} /\ StartRun

\* BuildConnectionString called on a descriptor.
BuildFromDescriptor == run.pc = "idle" /\ CallBuildConnectionString

NextGuard ==
    \/ StartLoop
    \/ MigrateDatabase
    \/ FinishMigrations
    \/ StatusDatabase
    \/ FinishStatus
    \/ ForceVersion
    \/ BuildFromDescriptor

SpecGuard == InitGuard /\ [][NextGuard]_vars

-----------------------------------------------------------------------------
(* The down command with every value of --steps, with and without --all *)

DownCommands ==
    {Command("down", <<>>, n, a, [host |-> <<>>, user |-> <<>>, password |-> <<>>]) :
        n \in -1..MaxSteps, a \in BOOLEAN}

InitDown ==
    /\ config = RunConfig
    /\ env \in RunEnvs
    /\ query = <<>>
    /\ result = NoResult
    /\ descriptor = NoDescriptor
    /\ connStr = noConnStr
    /\ history = <<>>
    /\ conns = {}
    /\ cmd \in DownCommands
    /\ databases \in DistinctLists(2)
    /\ run = NewRun
    /\ targets \in {[n \in RunNames |-> CleanTarget(v)] : v \in 0..NumMigrations}
    /\ last = NoCall
    /\ IdleDisc

NextDown == StartRun \/ MigrateDatabase \/ FinishMigrations

SpecDown == InitDown /\ [][NextDown]_vars

-----------------------------------------------------------------------------
(* The Migrator's methods called in any order on one target *)

OneTarget == <<"a">>

InitEngine ==
    /\ config = <<>>
    /\ env = [n \in EnvVars |-> <<>>]
    /\ query = <<>>
    /\ result = NoResult
    /\ descriptor = NoDescriptor
    /\ connStr = noConnStr
    /\ history = <<>>
    /\ conns = {}
    /\ IdleRun
    /\ IdleDisc
    /\ targets = [n \in {OneTarget} |-> CleanTarget(0)]
    /\ last = NoCall

Returned(op, steps, version, connect, ret) ==
    [op |-> op, steps |-> steps, version |-> version, connect |-> connect,
     before |-> targets[OneTarget], result |-> ret.result, err |-> ret.err]

CallUp ==
    \E steps \in -1..MaxSteps, connect \in BOOLEAN, failAt \in 0..MaxSteps :
        LET ret == MigratorUp(targets[OneTarget], steps, connect, failAt)
        IN  /\ targets' = [targets EXCEPT ![OneTarget] = ret.target]
            /\ last' = Returned("up", steps, 0, connect, ret)
            /\ UNCHANGED <<history, conns, discVars, resolveVars, connVars, runVars>>

CallDown ==
    \E steps \in -1..MaxSteps, connect \in BOOLEAN, failAt \in 0..MaxSteps :
        LET ret == MigratorDown(targets[OneTarget], steps, connect, failAt)
        IN  /\ targets' = [targets EXCEPT ![OneTarget] = ret.target]
            /\ last' = Returned("down", steps, 0, connect, ret)
            /\ UNCHANGED <<history, conns, discVars, resolveVars, connVars, runVars>>

CallGetStatus ==
    \E connect \in BOOLEAN :
        LET ret == MigratorGetStatus(targets[OneTarget], connect)
        IN  /\ targets' = [targets EXCEPT ![OneTarget] = ret.target]
            /\ last' = Returned("status", 0, 0, connect, ret)
            /\ UNCHANGED <<history, conns, discVars, resolveVars, connVars, runVars>>

CallForce ==
    \E version \in 0..NumMigrations, connect \in BOOLEAN :
        LET ret == MigratorForce(targets[OneTarget], version, connect)
        IN  /\ targets' = [targets EXCEPT ![OneTarget] = ret.target]
            /\ last' = Returned("force", 0, version, connect, ret)
            /\ UNCHANGED <<history, conns, discVars, resolveVars, connVars, runVars>>

NextEngine == CallUp \/ CallDown \/ CallGetStatus \/ CallForce

SpecEngine == InitEngine /\ [][NextEngine]_vars

-----------------------------------------------------------------------------
(* The list operations of the discovery package, called in any order on a    *)
(* list of declarations as a discoverer returns it (names may repeat).       *)

ListNames == {<<"a">>, <<"b">>, <<"c">>}

ListEntries ==
    {[Name |-> n, MigrationsPath |-> <<"/app/", p>>] :
        n \in ListNames, p \in {"p1", "p2", "p3"}}

\* The --database values tried: none, the names of the lists, and a name of no entry.
ListTargets == {<<>>, <<"z">>} \cup ListNames

NoListCall == [pc |-> "lists", op |-> "none", prev |-> "none", input |-> <<>>, arg |-> <<>>]

InitLists ==
    /\ config = <<>>
    /\ env = [n \in EnvVars |-> <<>>]
    /\ query = <<>>
    /\ result = NoResult
    /\ descriptor = NoDescriptor
    /\ connStr = noConnStr
    /\ history = <<>>
    /\ conns = {}
    /\ cmd = Command("none", <<>>, 0, FALSE, [host |-> <<>>, user |-> <<>>, password |-> <<>>])
    /\ databases \in SeqsUpTo(ListEntries, MaxListLen)
    /\ run = [NewRun EXCEPT !.pc = "idle"]
    /\ IdleEngine
    /\ fsys = NoFsys
    /\ manifest = <<>>
    /\ disc = NoListCall

\* databases = discovery.DeduplicateDatabases(databases)
CallDeduplicateDatabases ==
    /\ disc.pc = "lists"
    /\ databases' = DeduplicateDatabases(databases)
    /\ disc' = [disc EXCEPT !.op = "dedup", !.prev = disc.op, !.input = databases,
                            !.arg = <<>>]
    /\ UNCHANGED <<history, conns, resolveVars, connVars, cmd, run, engineVars, fsys, manifest>>

\* databases = discovery.FilterDatabases(databases, targetDB)
CallFilterDatabases ==
    /\ disc.pc = "lists"
    /\ \E targetDB \in ListTargets :
          /\ databases' = FilterDatabases(databases, targetDB)
          /\ disc' = [disc EXCEPT !.op = "filter", !.prev = disc.op, !.input = databases,
                                  !.arg = targetDB]
    /\ UNCHANGED <<history, conns, resolveVars, connVars, cmd, run, engineVars, fsys, manifest>>

NextLists == CallDeduplicateDatabases \/ CallFilterDatabases

SpecLists == InitLists /\ [][NextLists]_vars

-----------------------------------------------------------------------------
(* The source scanner as a state machine: one step per entry of the walk.   *)

ScanRoot(rootName) == << <<"srv">>, rootName >>

StringLit(value) == BasicLit("STRING", <<"\"">> \o value \o <<"\"">>)
RawStringLit(value) == BasicLit("STRING", <<BackQuote>> \o value \o <<BackQuote>>)
DatabaseConfigLit(path) == CompositeLit(<< KeyValue(<<"Migrations">>, path) >>)

\* x.NewDatabase("name", sqldb.DatabaseConfig{Migrations: "path"})
WellFormedCall(x, name, path) ==
    CallExpr(x, "NewDatabase", << StringLit(name), DatabaseConfigLit(StringLit(path)) >>)

\* The argument lists of the calls tried: well formed with "./m", "../m" and a
\* raw-string name after another field, a name that is not a literal, no
\* Migrations field, a path that is not a literal, a single argument.
ArgLists ==
    { << StringLit(<<"a">>), DatabaseConfigLit(StringLit(<<".", "/", "m">>)) >>,
      << StringLit(<<"b">>), DatabaseConfigLit(StringLit(<<"..", "/", "m">>)) >>,
      << RawStringLit(<<"c">>),
         CompositeLit(<< KeyValue(<<>>, Ident("x")),
                         KeyValue(<<"Migrations">>, StringLit(<<"m">>)) >>) >>,
      << Ident("name"), DatabaseConfigLit(StringLit(<<"m">>)) >>,
      << StringLit(<<"a">>), CompositeLit(<< KeyValue(<<"Other">>, StringLit(<<"m">>)) >>) >>,
      << StringLit(<<"a">>), DatabaseConfigLit(Ident("dir")) >>,
      << StringLit(<<"a">>) >> }

\* Calls through the identifiers sqldb and db2, a call of another function of
\* the module, and a call whose receiver is not an identifier.
Calls ==
    {CallExpr(x, "NewDatabase", args) : x \in {<<"sqldb">>, <<"db2">>}, args \in ArgLists}
    \cup {CallExpr(<<"sqldb">>, "Named", << StringLit(<<"a">>) >>),
          WellFormedCall(<<>>, <<"a">>, <<"m">>)}

OtherImport == ImportSpec(<<"database", "sql">>, <<>>)

\* The import declarations tried.
ImportLists ==
    { <<>>,
      << OtherImport >>,
      << ImportSpec(<<"database", "sql">>, <<"db2">>) >>,
      << ImportSpec(encoreSQLDBImport, <<>>) >>,
      << ImportSpec(encoreSQLDBImport, <<"db2">>) >>,
      << ImportSpec(encoreSQLDBImport, <<"_">>) >>,
      << ImportSpec(encoreSQLDBImport, <<".">>) >>,
      << OtherImport, ImportSpec(encoreSQLDBImport, <<"db2">>) >>,
      << ImportSpec(encoreSQLDBImport, <<>>), OtherImport >>,
      << ImportSpec(encoreSQLDBImport, <<"_">>), ImportSpec(encoreSQLDBImport, <<"db2">>) >>,
      << ImportSpec(encoreSQLDBImport, <<>>), ImportSpec(encoreSQLDBImport, <<"db2">>) >> }

\* One file svc/a.go under the root, with each import declaration and each
\* list of calls; the directories its literals name exist, or none does.
CallTrees ==
    LET root == ScanRoot(<<"app">>)
        svc  == Append(root, <<"svc">>)
    IN  {[root |-> root,
          entries |-> << DirEntry(root, TRUE, FALSE, NoFile),
                         DirEntry(svc, TRUE, FALSE, NoFile),
                         DirEntry(Append(svc, <<"a", ".go">>), FALSE, FALSE,
                                  GoFile(TRUE, imports, calls)) >>,
          exists |-> IF e THEN {root, svc, Append(svc, <<"m">>), Append(root, <<"m">>)}
                     ELSE {root, svc}] :
            imports \in ImportLists, calls \in SeqsUpTo(Calls, MaxCalls), e \in BOOLEAN}

RootNames == {<<"app">>, <<".", "app">>, <<"_", "app">>, <<"vendor">>}
DirNames == {<<"svc">>, <<"vendor">>, <<"testdata">>, <<"node_modules">>,
             <<".", "git">>, <<"_", "x">>}
FileNames == {<<"a", ".go">>, <<"a", "_test.go">>, <<"a", ".txt">>}

SqldbFile(parses, name) ==
    GoFile(parses, << ImportSpec(encoreSQLDBImport, <<>>) >>,
           << WellFormedCall(<<"sqldb">>, name, <<"m">>) >>)

\* A root of each name with a file a.* and one directory of each name, which
\* holds b.go and sub/c.go; the entries are in the lexical order of the walk.
WalkTrees ==
    {LET root == ScanRoot(rootName)
         dir  == Append(root, dirName)
         sub  == Append(dir, <<"sub">>)
         top  == << DirEntry(root, TRUE, rootErr, NoFile) >>
         file == << DirEntry(Append(root, fileName), FALSE, FALSE,
                             SqldbFile(parses, <<"a">>)) >>
         below == << DirEntry(dir, TRUE, dirErr, NoFile),
                     DirEntry(Append(dir, <<"b", ".go">>), FALSE, FALSE,
                              SqldbFile(TRUE, <<"b">>)),
                     DirEntry(sub, TRUE, FALSE, NoFile),
                     DirEntry(Append(sub, <<"c", ".go">>), FALSE, FALSE,
                              SqldbFile(TRUE, <<"c">>)) >>
     IN  [root |-> root,
          entries |-> IF Head(dirName) \in {".", "_"} THEN top \o below \o file
                      ELSE top \o file \o below,
          exists |-> {root, dir, sub, Append(root, <<"m">>), Append(dir, <<"m">>),
                      Append(sub, <<"m">>)}] :
        rootName \in RootNames, dirName \in DirNames, fileName \in FileNames,
        parses \in BOOLEAN, rootErr \in BOOLEAN, dirErr \in BOOLEAN}

InitScan ==
    /\ config = <<>>
    /\ env = [n \in EnvVars |-> <<>>]
    /\ query = <<>>
    /\ result = NoResult
    /\ descriptor = NoDescriptor
    /\ connStr = noConnStr
    /\ history = <<>>
    /\ conns = {}
    /\ IdleRun
    /\ IdleEngine
    /\ fsys \in CallTrees \cup WalkTrees
    /\ manifest = <<>>
    /\ disc = NewScan

\* The walk calls the callback for its next entry.
WalkEntry ==
    /\ disc.pc = "walk"
    /\ disc.idx <= Len(fsys.entries)
    /\ disc' = walkEntry(disc, fsys.entries[disc.idx], fsys.exists)
    /\ UNCHANGED <<history, conns, resolveVars, connVars, runVars, engineVars, fsys, manifest>>

\* The walk has ended without error.
FinishWalk ==
    /\ disc.pc = "walk"
    /\ disc.idx > Len(fsys.entries)
    /\ disc' = finishWalk(disc)
    /\ UNCHANGED <<history, conns, resolveVars, connVars, runVars, engineVars, fsys, manifest>>

NextScan == WalkEntry \/ FinishWalk

SpecScan == InitScan /\ [][NextScan]_vars

-----------------------------------------------------------------------------
(* The manifest loader called on a manifest and a file system *)

\* Entries with and without name and path; the relative path m and the
\* absolute path /srv/app/m name a directory that exists, x and /q do not.
ManifestEntries ==
    {ManifestDatabase(n, p) :
        n \in {<<>>, <<"a">>, <<"b">>},
        p \in {<<>>, <<"m">>, <<"x">>, <<"/", "srv", "/", "app", "/", "m">>, <<"/", "q">>}}

Manifests ==
    {Manifest("ok", dbs) : dbs \in SeqsUpTo(ManifestEntries, MaxManifestLen)}
    \cup {Manifest("unreadable", <<>>), Manifest("malformed", <<>>)}

ManifestFsys ==
    [root |-> ScanRoot(<<"app">>), entries |-> <<>>,
     exists |-> {ScanRoot(<<"app">>), Append(ScanRoot(<<"app">>), <<"m">>)}]

InitManifest ==
    /\ config = <<>>
    /\ env = [n \in EnvVars |-> <<>>]
    /\ query = <<>>
    /\ result = NoResult
    /\ descriptor = NoDescriptor
    /\ connStr = noConnStr
    /\ history = <<>>
    /\ conns = {}
    /\ IdleRun
    /\ IdleEngine
    /\ fsys = ManifestFsys
    /\ manifest \in Manifests
    /\ disc = [pc |-> "manifest"]

\* A call config.LoadManifest(manifestPath, rootDir).
CallLoadManifest ==
    /\ disc.pc = "manifest"
    /\ LET l == LoadManifest(manifest, fsys.root, fsys.exists)
       IN  disc' = [pc |-> "loaded", returned |-> l.databases, err |-> l.err]
    /\ UNCHANGED <<history, conns, resolveVars, connVars, runVars, engineVars, fsys, manifest>>

NextManifest == CallLoadManifest

SpecManifest == InitManifest /\ [][NextManifest]_vars

-----------------------------------------------------------------------------
(* GetMapping calls on one loaded document while the environment changes,   *)
(* every call made so far being recorded.                                   *)

\* The names asked for: "a" has literal fields, "c" needs the variable U, "g"
\* needs the variable P.
ChangingNames == {<<"a">>, <<"c">>, <<"g">>}
ChangingVars == {<<"U">>, <<"P">>}

\* A GetMapping call: the name asked for, the environment at that time, and
\* what was returned.
Call(name, e, r) == [name |-> name, env |-> e, result |-> r]

InitChanging ==
    /\ config = RunConfig
    /\ env \in {e \in Envs : e[<<"N">>] = <<>>}
    /\ query = <<>>
    /\ result = NoResult
    /\ descriptor = NoDescriptor
    /\ connStr = noConnStr
    /\ history = <<>>
    /\ conns = {}
    /\ IdleRun
    /\ IdleDisc
    /\ IdleEngine

\* The environment sets or unsets a variable; what the last call returned
\* stays with its caller.
SetenvBetweenCalls ==
    \E n \in ChangingVars, v \in EnvValues :
        /\ env[n] # v
        /\ env' = [env EXCEPT ![n] = v]
        /\ UNCHANGED <<history, conns, discVars, config, query, result, connVars, runVars, engineVars>>

\* A further call c.GetMapping(encoreName) on the same document.
CallGetMappingAgain ==
    \E encoreName \in ChangingNames :
        /\ Len(history) < MaxHistory
        /\ query' = encoreName
        /\ result' = GetMapping(config, env, encoreName)
        /\ history' = Append(history, Call(encoreName, env, GetMapping(config, env, encoreName)))
        /\ UNCHANGED <<conns, discVars, config, env, connVars, runVars, engineVars>>

NextChanging == SetenvBetweenCalls \/ CallGetMappingAgain

SpecChanging == InitChanging /\ [][NextChanging]_vars

-----------------------------------------------------------------------------
(* One iteration of a command's loop up to the connection string: the       *)
(* descriptor is resolved, the overrides of the command line are applied,   *)
(* and the connection string is built.                                      *)

OverrideHosts ==
    {<<>>, <<"x">>, <<"x", ":", "9">>, <<"x", ":">>, <<":", "9">>,
     <<"a", ":", "b", ":", "9">>}

OverrideFlags ==
    {[host |-> h, user |-> u, password |-> p] :
        h \in OverrideHosts, u \in {<<>>, <<"w">>}, p \in {<<>>, <<"r">>, <<"@">>}}

OverrideCommands ==
    {Command(name, <<>>, 0, FALSE, o) : name \in {"up", "force"}, o \in OverrideFlags}

InitOverrides ==
    /\ config = RunConfig
    /\ env \in RunEnvs
    /\ query = <<>>
    /\ result = NoResult
    /\ descriptor = NoDescriptor
    /\ connStr = noConnStr
    /\ history = <<>>
    /\ conns = {}
    /\ cmd \in OverrideCommands
    /\ databases = <<>>
    /\ run = [NewRun EXCEPT !.pc = "idle"]
    /\ IdleDisc
    /\ IdleEngine

\* GetMapping, applyConnectionOverrides, BuildConnectionString for one database.
ResolveOverrideBuild ==
    \E encoreName \in RunNames :
        /\ query = <<>>
        /\ query' = encoreName
        /\ LET got == GetMapping(config, env, encoreName)
           IN  /\ result' = got
               /\ IF got.mapping = <<>>
                  THEN UNCHANGED <<descriptor, connStr>>
                  ELSE LET mapping == applyConnectionOverrides(cmd, got.mapping[1])
                       IN  /\ descriptor' = mapping
                           /\ connStr' = BuildConnectionString(mapping)
        /\ UNCHANGED <<history, conns, discVars, config, env, runVars, engineVars>>

NextOverrides == ResolveOverrideBuild

SpecOverrides == InitOverrides /\ [][NextOverrides]_vars

-----------------------------------------------------------------------------
(* Discovery at the start of each command: up, down, status and force call  *)
(* loadConfigAndDiscover, list discovers by itself.                          *)

DiscoveryCommands ==
    {Command(name, <<>>, 0, FALSE, [host |-> <<>>, user |-> <<>>, password |-> <<>>]) :
        name \in {"up", "down", "status", "list", "force"}}

\* Two source files, a.go and svc/b.go, each with one declaration; the names
\* may be the same.
TwoFileTrees ==
    LET root == ScanRoot(<<"app">>)
        svc  == Append(root, <<"svc">>)
    IN  {[root |-> root,
          entries |-> << DirEntry(root, TRUE, FALSE, NoFile),
                         DirEntry(Append(root, <<"a", ".go">>), FALSE, FALSE,
                                  SqldbFile(TRUE, n1)),
                         DirEntry(svc, TRUE, readErr, NoFile),
                         DirEntry(Append(svc, <<"b", ".go">>), FALSE, FALSE,
                                  SqldbFile(TRUE, n2)) >>,
          exists |-> {root, svc, Append(root, <<"m">>), Append(svc, <<"m">>)}] :
            n1 \in {<<"a">>, <<"b">>}, n2 \in {<<"a">>, <<"b">>}, readErr \in BOOLEAN}

\* discovery.Options
Options(manifestPath) == [ManifestPath |-> manifestPath]

InitDiscovery ==
    /\ config = <<>>
    /\ env = [n \in EnvVars |-> <<>>]
    /\ query = <<>>
    /\ result = NoResult
    /\ descriptor = NoDescriptor
    /\ connStr = noConnStr
    /\ history = <<>>
    /\ conns = {}
    /\ cmd \in DiscoveryCommands
    /\ databases = <<>>
    /\ run = [NewRun EXCEPT !.pc = "discover"]
    /\ IdleEngine
    /\ \/ /\ disc = [pc |-> "new", opts |-> Options(manifestFile)]
          /\ manifest \in Manifests
          /\ fsys = ManifestFsys
       \/ /\ disc = [pc |-> "new", opts |-> Options(<<>>)]
          /\ manifest = <<>>
          /\ fsys \in TwoFileTrees

\* up, down, status and force: loadConfigAndDiscover.
LoadConfigAndDiscover ==
    /\ run.pc = "discover"
    /\ cmd.name \in {"up", "down", "status", "force"}
    /\ LET o == loadConfigAndDiscover(run, Discover(disc.opts, manifest, fsys))
       IN  /\ run' = o.run
           /\ databases' = o.databases
    /\ disc' = [disc EXCEPT !.pc = "discovered"]
    /\ UNCHANGED <<history, conns, resolveVars, connVars, cmd, engineVars, fsys, manifest>>

\* list: listDatabases.
ListDatabases ==
    /\ run.pc = "discover"
    /\ cmd.name = "list"
    /\ LET o == listDatabases(run, Discover(disc.opts, manifest, fsys))
       IN  /\ run' = o.run
           /\ databases' = o.databases
    /\ disc' = [disc EXCEPT !.pc = "discovered"]
    /\ UNCHANGED <<history, conns, resolveVars, connVars, cmd, engineVars, fsys, manifest>>

NextDiscovery == LoadConfigAndDiscover \/ ListDatabases

SpecDiscovery == InitDiscovery /\ [][NextDiscovery]_vars





-----------------------------------------------------------------------------
(* Claims about the configuration resolver.  In the states below, query is *)
(* the name of the call just made, result is what it returned and env is   *)
(* the environment it ran in.                                               *)

\* The servers of the document that declare the name as an exact key.
Declaring(name) == {i \in 1..Len(config) : name \in DOMAIN config[i].Databases}
FirstDeclaring(name) == CHOOSE i \in Declaring(name) : \A j \in Declaring(name) : i <= j

\* What a field stands for: its literal, or the value of its variable.
Unset(ref) == ref.IsEnv /\ (ref.EnvVar \notin DOMAIN env \/ env[ref.EnvVar] = <<>>)
ValueOf(ref) == IF ref.IsEnv THEN env[ref.EnvVar] ELSE ref.Value

\* host and port are the two sides of the last ':' of hostStr.
SplitAtLastColon(hostStr, host, port) ==
    IF \E i \in 1..Len(hostStr) : hostStr[i] = ":"
    THEN /\ host \o <<":">> \o port = hostStr
         /\ \A i \in 1..Len(port) : port[i] # ":"
    ELSE host = hostStr /\ port = <<"5", "4", "3", "2">>

\* C1: GetMapping builds its result only from the first server, in declaration
\* order, whose databases map has the logical name as an exact key: a
\* descriptor carries that server's host and that entry's credentials, a
\* failure to resolve that entry's secrets is an error even when a later
\* server declares the name too, and a name no server declares gives an error
\* that contains the name, and no descriptor.
C1_FirstMatchWins ==
    query # <<>> =>
        IF Declaring(query) = {}
        THEN /\ result.mapping = <<>>
             /\ result.err # <<>>
             /\ Contains(result.err, query)
        ELSE LET server == config[FirstDeclaring(query)]
                 db     == server.Databases[query]
             IN  IF Unset(db.Username) \/ Unset(db.Password) \/ Unset(db.Name)
                 THEN result.mapping = <<>> /\ result.err # <<>>
                 ELSE /\ result.err = <<>>
                      /\ result.mapping # <<>>
                      /\ result.mapping[1].EncoreName = query
                      /\ result.mapping[1].Username = ValueOf(db.Username)
                      /\ result.mapping[1].Password = ValueOf(db.Password)
                      /\ SplitAtLastColon(server.Host, result.mapping[1].Host,
                                          result.mapping[1].Port)

\* Two servers declare the name, the first one's secrets do not resolve, the
\* second one's would, and the call failed.
C1_Witness ==
    /\ query # <<>>
    /\ Cardinality(Declaring(query)) >= 2
    /\ LET db == config[FirstDeclaring(query)].Databases[query]
       IN  Unset(db.Username)
    /\ \E j \in Declaring(query) :
          LET db == config[j].Databases[query]
          IN  ~Unset(db.Username) /\ ~Unset(db.Password) /\ ~Unset(db.Name)
    /\ result.mapping = <<>>
    /\ result.err # <<>>

\* C2: the SSL mode of a resolved descriptor is "require" exactly when the
\* server it was resolved from has a TLS block that is not disabled and
\* declares a client certificate, and "disable" in every other case.
C2_SSLMode ==
    (query # <<>> /\ result.mapping # <<>>) =>
        LET tls == config[FirstDeclaring(query)].TLSConfig
            mutual == /\ Len(tls) = 1
                      /\ tls[1].Disabled = FALSE
                      /\ Len(tls[1].ClientCert) = 1
        IN  /\ result.mapping[1].SSLMode \in {"require", "disable"}
            /\ result.mapping[1].SSLMode = "require" <=> mutual

\* A descriptor resolved from a server with an enabled TLS block that has no
\* client certificate: its mode is "disable".
C2_Witness ==
    /\ query # <<>>
    /\ result.mapping # <<>>
    /\ config[FirstDeclaring(query)].TLSConfig = TLS(FALSE, FALSE)
    /\ result.mapping[1].SSLMode = "disable"

\* C3: username and password resolve to the literal, or to the value of the
\* referenced variable; when the variable of the username, or else of the
\* password, is unset the call returns an error that contains the variable's
\* name, and no descriptor.
C3_Credentials ==
    (query # <<>> /\ Declaring(query) # {}) =>
        LET db == config[FirstDeclaring(query)].Databases[query]
        IN  /\ Unset(db.Username) =>
                /\ result.mapping = <<>>
                /\ Contains(result.err, db.Username.EnvVar)
            /\ (~Unset(db.Username) /\ Unset(db.Password)) =>
                /\ result.mapping = <<>>
                /\ Contains(result.err, db.Password.EnvVar)
            /\ result.mapping # <<>> =>
                /\ result.mapping[1].Username = ValueOf(db.Username)
                /\ result.mapping[1].Password = ValueOf(db.Password)
                /\ db.Username.IsEnv => result.mapping[1].Username # <<>>
                /\ db.Password.IsEnv => result.mapping[1].Password # <<>>

\* The username is a literal, the password's variable is unset, and the call
\* failed with an error naming that variable.
C3_Witness ==
    /\ query # <<>>
    /\ Declaring(query) # {}
    /\ LET db == config[FirstDeclaring(query)].Databases[query]
       IN  /\ ~db.Username.IsEnv
           /\ Unset(db.Password)
           /\ Contains(result.err, db.Password.EnvVar)
    /\ result.mapping = <<>>

\* C4: the physical name is the literal when it is a non-empty literal, the
\* variable's value when it is an indirection to a set variable, and the
\* logical name when it is an empty literal; an indirection to an unset
\* variable is an error and never the logical name.
C4_PhysicalName ==
    (query # <<>> /\ Declaring(query) # {}) =>
        LET db == config[FirstDeclaring(query)].Databases[query]
        IN  /\ Unset(db.Name) => (result.mapping = <<>> /\ result.err # <<>>)
            /\ result.mapping # <<>> =>
                result.mapping[1].PGDBName =
                    IF db.Name.IsEnv THEN env[db.Name.EnvVar]
                    ELSE IF db.Name.Value # <<>> THEN db.Name.Value
                    ELSE query

\* Username and password resolve, the name is an indirection to an unset
\* variable, and the call failed with an error naming that variable.
C4_Witness ==
    /\ query # <<>>
    /\ Declaring(query) # {}
    /\ LET db == config[FirstDeclaring(query)].Databases[query]
       IN  /\ ~Unset(db.Username)
           /\ ~Unset(db.Password)
           /\ Unset(db.Name)
           /\ Contains(result.err, db.Name.EnvVar)
    /\ result.mapping = <<>>

\* C5: the resolved host and port are the parts of the server's host string
\* before and after its last ':'; without a ':' the host is the whole string
\* and the port is "5432".
C5_HostPort ==
    (query # <<>> /\ result.mapping # <<>>) =>
        SplitAtLastColon(config[FirstDeclaring(query)].Host,
                         result.mapping[1].Host, result.mapping[1].Port)

\* A host string with two colons was split at the second one.
C5_Witness ==
    /\ query # <<>>
    /\ result.mapping # <<>>
    /\ config[1].Host = <<"h", ":", "h", ":">>
    /\ result.mapping[1].Host = <<"h", ":", "h">>
    /\ result.mapping[1].Port = <<>>

-----------------------------------------------------------------------------
(* Claims about connection-string construction *)

\* net/url's reading of a built string: the scheme, then the authority up to
\* the first '/', whose user information ends at the last '@' and is split at
\* its first ':'.
RECURSIVE IndexFrom(_, _, _)
IndexFrom(s, c, i) ==
    IF i > Len(s) THEN 0
    ELSE IF s[i] = c THEN i
    ELSE IndexFrom(s, c, i + 1)

HexDigits == {"0", "1", "2", "3", "4", "5", "6", "7", "8", "9", "A", "B", "C", "D", "E", "F"}
Escapable == {"@", ":", "/", "+", "%", "?", "#"}

\* url.PathUnescape-like decoding of user information: %XX is decoded, '+' is kept.
RECURSIVE unescapeUserinfo(_)
unescapeUserinfo(s) ==
    IF s = <<>> THEN [ok |-> TRUE, value |-> <<>>]
    ELSE IF Head(s) = "%"
    THEN IF Len(s) < 3 \/ s[2] \notin HexDigits \/ s[3] \notin HexDigits
         THEN [ok |-> FALSE, value |-> <<>>]
         ELSE LET rest == unescapeUserinfo(SubSeq(s, 4, Len(s)))
                  c    == CHOOSE x \in Escapable : HexOf(x) = <<s[2], s[3]>>
              IN  IF (\E x \in Escapable : HexOf(x) = <<s[2], s[3]>>) /\ rest.ok
                  THEN [ok |-> TRUE, value |-> <<c>> \o rest.value]
                  ELSE [ok |-> FALSE, value |-> <<>>]
    ELSE LET rest == unescapeUserinfo(Tail(s))
         IN  [ok |-> rest.ok, value |-> IF rest.ok THEN <<Head(s)>> \o rest.value ELSE <<>>]

\* url.Parse(str).User: the username and password of a built string.
ParseUserinfo(str) ==
    LET afterScheme == Tail(str)
        slash       == IndexFrom(afterScheme, "/", 1)
        authority   == IF slash = 0 THEN afterScheme ELSE SubSeq(afterScheme, 1, slash - 1)
        at          == LastIndex(authority, "@")
        userinfo    == SubSeq(authority, 1, at - 1)
        colon       == IndexFrom(userinfo, ":", 1)
        user        == unescapeUserinfo(IF colon = 0 THEN userinfo
                                        ELSE SubSeq(userinfo, 1, colon - 1))
        pass        == unescapeUserinfo(IF colon = 0 THEN <<>>
                                        ELSE SubSeq(userinfo, colon + 1, Len(userinfo)))
    IN  IF str = <<>> \/ Head(str) # "postgres://" \/ at = 0 \/ ~user.ok \/ ~pass.ok
        THEN [ok |-> FALSE, username |-> <<>>, password |-> <<>>]
        ELSE [ok |-> TRUE, username |-> user.value, password |-> pass.value]

\* C6: a built connection string contains the username and the password in
\* encoded form and, parsed back as a URL, gives a username and a password
\* equal to the original values.
C6_RoundTrip ==
    connStr.str # <<>> =>
        /\ Contains(connStr.str, QueryEscape(descriptor.Username))
        /\ Contains(connStr.str, QueryEscape(descriptor.Password))
        /\ ParseUserinfo(connStr.str).ok
        /\ ParseUserinfo(connStr.str).username = descriptor.Username
        /\ ParseUserinfo(connStr.str).password = descriptor.Password

\* The round trip restricted to usernames and passwords without a space.
RoundTripWithoutSpace ==
    (/\ connStr.str # <<>>
     /\ \A i \in 1..Len(descriptor.Username) : descriptor.Username[i] # " "
     /\ \A i \in 1..Len(descriptor.Password) : descriptor.Password[i] # " ") =>
        /\ ParseUserinfo(connStr.str).ok
        /\ ParseUserinfo(connStr.str).username = descriptor.Username
        /\ ParseUserinfo(connStr.str).password = descriptor.Password

-----------------------------------------------------------------------------
(* Claims about the orchestrator *)

HasEntry(name) == Declaring(name) # {}
MigrationRun == cmd.name \in {"up", "down"}
InLoop == run.pc \in {"loop", "done"} /\ Len(databases) > 0
LoopCompleted == run.pc = "done" /\ Len(databases) > 0 /\ run.idx > Len(databases)
\* The command returned from inside the loop, at databases[run.idx].
Aborted == run.pc = "done" /\ Len(databases) > 0 /\ run.idx <= Len(databases)
\* The loop's iteration for databases[j] has run.
Visited(j) == j < run.idx \/ (j = run.idx /\ Aborted)
CalledFor(name) == \E k \in 1..Len(run.calls) : run.calls[k].db = name
FailedCall(name) == \E k \in 1..Len(run.calls) : run.calls[k].db = name /\ run.calls[k].err # <<>>
StartsWith(s, prefix) == Len(s) >= Len(prefix) /\ SubSeq(s, 1, Len(prefix)) = prefix
\* The configuration of the database resolves in the run's environment.
Resolves(name) ==
    /\ HasEntry(name)
    /\ LET db == config[FirstDeclaring(name)].Databases[name]
       IN  ~Unset(db.Username) /\ ~Unset(db.Password) /\ ~Unset(db.Name)
\* The descriptor of a database whose configuration resolves gives a connection string.
Buildable(name) ==
    BuildConnectionString(
        applyConnectionOverrides(cmd, GetMapping(config, env, name).mapping[1])).err = <<>>

\* C7 (as stated): in an up/down run whose loop runs to its end over a list in
\* which some database has no config entry, every other database is processed,
\* the run returns an error, and the error names each database without entry.
C7_MissingConfigFailsRun ==
    (/\ MigrationRun
     /\ LoopCompleted
     /\ \E i \in 1..Len(databases) : ~HasEntry(databases[i].Name)) =>
        /\ \A j \in 1..Len(databases) : Visited(j)
        /\ run.err # <<>>
        /\ \A i \in 1..Len(databases) :
              ~HasEntry(databases[i].Name) => Contains(run.err, databases[i].Name)

\* C7 (amended): in an up/down run, a database without config entry is
\* skipped: the engine is not called for it, a warning naming it goes to
\* stderr, the loop goes on to the next database, and the skip adds no entry
\* to the run's errors; a run whose loop runs to its end returns an error
\* exactly when an engine call failed, and the error has one entry for each
\* failed call.
C7_MissingConfigIsSkipped ==
    (MigrationRun /\ InLoop) =>
        /\ \A j \in 1..Len(databases) :
              (Visited(j) /\ ~HasEntry(databases[j].Name)) =>
                  /\ ~CalledFor(databases[j].Name)
                  /\ \E k \in 1..Len(run.stderr) :
                        /\ Head(run.stderr[k]) = "Warning: skipping "
                        /\ Contains(run.stderr[k], Quote(databases[j].Name))
                  /\ \A k \in 1..Len(run.errs) :
                        ~StartsWith(run.errs[k], databases[j].Name \o <<": ">>)
        /\ Aborted => HasEntry(databases[run.idx].Name)
        /\ LoopCompleted =>
              /\ run.err # <<>> <=> \E k \in 1..Len(run.calls) : run.calls[k].err # <<>>
              /\ \A k \in 1..Len(run.calls) :
                    run.calls[k].err # <<>> =>
                        Contains(run.err, run.calls[k].db \o <<": ">> \o run.calls[k].err)

\* Three databases, the second without config entry: the first and the third
\* were migrated and the run returned no error.
C7_Witness ==
    /\ MigrationRun
    /\ LoopCompleted
    /\ Len(databases) = 3
    /\ ~HasEntry(databases[2].Name)
    /\ CalledFor(databases[1].Name) /\ ~FailedCall(databases[1].Name)
    /\ CalledFor(databases[3].Name) /\ ~FailedCall(databases[3].Name)
    /\ run.err = <<>>

\* C8: in an up/down run a failure while processing one database (its
\* connection string cannot be built, or the engine returns an error) never
\* stops the loop: every database of the list is processed, the run returns
\* an error exactly when a database failed, and the error has an entry for
\* every failed database.
C8_FailureNeverStopsLoop ==
    (MigrationRun /\ run.pc = "done" /\ Len(databases) > 0) =>
        /\ \A j \in 1..Len(databases) : Visited(j)
        /\ run.err # <<>> <=>
              (Aborted \/ \E k \in 1..Len(run.calls) : run.calls[k].err # <<>>)
        /\ \A k \in 1..Len(run.calls) :
              run.calls[k].err # <<>> =>
                  Contains(run.err, run.calls[k].db \o <<": ">> \o run.calls[k].err)

\* C9: when config resolution fails for a database of a run, the engine is
\* not called for that database and is called for every other database of the
\* list whose config resolves (to a descriptor that gives a connection
\* string), before or after the failing one.
C9_ConfigFailureIsolated ==
    (/\ run.pc = "done"
     /\ Len(databases) > 0
     /\ \E i \in 1..Len(databases) : ~Resolves(databases[i].Name)) =>
        /\ \A i \in 1..Len(databases) :
              ~Resolves(databases[i].Name) => ~CalledFor(databases[i].Name)
        /\ \A j \in 1..Len(databases) :
              (Resolves(databases[j].Name) /\ Buildable(databases[j].Name)) =>
                  CalledFor(databases[j].Name)

-----------------------------------------------------------------------------
(* Claims about the Migrator *)

IsDirtyError(err) == err # <<>> /\ Head(err) = "database is in dirty state at version "

\* C10: on a target marked dirty, every Up and Down call that reaches it fails
\* with the dirty-state error, and every Up, Down and GetStatus call leaves
\* its version and dirty flag unchanged; a Force call that reaches the target
\* succeeds whatever the dirty flag is, sets the version and clears the flag,
\* and an Up or Down on a target that is not dirty is not rejected for
\* dirtiness.
C10_DirtyBlocksUntilForce ==
    /\ (last.op \in {"up", "down"} /\ last.connect /\ last.before.dirty) =>
          /\ IsDirtyError(last.err)
          /\ last.result = <<>>
    /\ (last.op \in {"up", "down", "status"} /\ last.before.dirty) =>
          targets[OneTarget] = last.before
    /\ (last.op = "force" /\ last.connect) =>
          /\ last.err = <<>>
          /\ targets[OneTarget] = [version |-> last.version, dirty |-> FALSE]
    /\ (last.op \in {"up", "down"} /\ ~last.before.dirty) => ~IsDirtyError(last.err)

\* An Up call reached a dirty target and was rejected.
C10_Witness ==
    /\ last.op = "up"
    /\ last.connect
    /\ last.before.dirty
    /\ IsDirtyError(last.err)
    /\ targets[OneTarget].dirty

-----------------------------------------------------------------------------
(* Claims about the list operations *)

\* The positions of the list whose name occurs at no history position.
FirstOccurrences(dbs) ==
    {i \in 1..Len(dbs) : \A j \in 1..(i - 1) : dbs[j].Name # dbs[i].Name}
\* The k-th smallest element of a set of positions.
Kth(S, k) == CHOOSE i \in S : Cardinality({j \in S : j <= i}) = k
NamesOf(dbs) == {dbs[i].Name : i \in 1..Len(dbs)}
DistinctNames(dbs) ==
    \A i, j \in 1..Len(dbs) : dbs[i].Name = dbs[j].Name => i = j

\* C11: DeduplicateDatabases returns the entries of the input that are the
\* first of their name, in input order; the result has no two entries of one
\* name and every name of the input, and applying the operation to its own
\* result gives that result.
C11_Deduplicate ==
    disc.pc = "lists" /\ disc.op = "dedup" =>
        LET first == FirstOccurrences(disc.input)
        IN  /\ Len(databases) = Cardinality(first)
            /\ \A k \in 1..Len(databases) : databases[k] = disc.input[Kth(first, k)]
            /\ DistinctNames(databases)
            /\ NamesOf(databases) = NamesOf(disc.input)
            /\ disc.prev = "dedup" => databases = disc.input

\* [{a,p1},{b,p2},{a,p3}] gave [{a,p1},{b,p2}].
C11_Witness ==
    /\ disc.pc = "lists"
    /\ disc.op = "dedup"
    /\ disc.input = << [Name |-> <<"a">>, MigrationsPath |-> <<"/app/", "p1">>],
                       [Name |-> <<"b">>, MigrationsPath |-> <<"/app/", "p2">>],
                       [Name |-> <<"a">>, MigrationsPath |-> <<"/app/", "p3">>] >>
    /\ databases = << [Name |-> <<"a">>, MigrationsPath |-> <<"/app/", "p1">>],
                      [Name |-> <<"b">>, MigrationsPath |-> <<"/app/", "p2">>] >>

\* C12: for every list and every name FilterDatabases returns the singleton
\* list of the first entry of that name, or the empty list when no entry has
\* the name; never more than one entry, never an entry of another name.
C12_FilterSingletonOrEmpty ==
    disc.pc = "lists" /\ disc.op = "filter" =>
        /\ Len(databases) <= 1
        /\ \A k \in 1..Len(databases) : databases[k].Name = disc.arg
        /\ Len(databases) = 1 <=> disc.arg \in NamesOf(disc.input)
        /\ Len(databases) = 1 =>
              \E i \in FirstOccurrences(disc.input) : databases[1] = disc.input[i]

\* The same for the names that are not the empty string.
FilterByNonEmptyName ==
    (disc.pc = "lists" /\ disc.op = "filter" /\ disc.arg # <<>>) =>
        /\ Len(databases) <= 1
        /\ \A k \in 1..Len(databases) : databases[k].Name = disc.arg
        /\ Len(databases) = 1 <=> disc.arg \in NamesOf(disc.input)
        /\ Len(databases) = 1 =>
              \E i \in FirstOccurrences(disc.input) : databases[1] = disc.input[i]

-----------------------------------------------------------------------------
(* Claims about the source scanner *)

\* The callback has run for entry i and went into it: the entry lies below no
\* skipped directory.
Reached(i) ==
    /\ i < disc.idx
    /\ \A p \in disc.skipped : ~(IsPrefix(p, fsys.entries[i].path) /\ p # fsys.entries[i].path)
\* Entry i is a source file the scanner reads: a .go file that is not a test file.
SourceFileAt(i) ==
    LET name == Base(fsys.entries[i].path)
    IN  /\ ~fsys.entries[i].isDir
        /\ name[Len(name)] = ".go"
\* The import specs of the storage-declaration module in a file.
ModuleImports(file) ==
    {k \in 1..Len(file.Imports) : file.Imports[k].Path = <<"encore.dev", "storage", "sqldb">>}
\* The name under which the file's import of the module (its first one) makes
\* the module available: the alias, "sqldb" without alias, none for '_' and '.'.
ImportedAs(file) ==
    IF ModuleImports(file) = {} THEN <<>>
    ELSE LET imp == file.Imports[Kth(ModuleImports(file), 1)]
         IN  IF imp.Name = <<>> THEN <<"sqldb">>
             ELSE IF imp.Name \in {<<"_">>, <<".">>} THEN <<>>
             ELSE imp.Name
IsStringLit(expr) == expr.node = "BasicLit" /\ expr.Kind = "STRING"
Unquoted(expr) == SubSeq(expr.Value, 2, Len(expr.Value) - 1)
MigrationsFields(expr) ==
    {k \in 1..Len(expr.Elts) : expr.Elts[k].Key = <<"Migrations">>}
\* A call  <identifier>.NewDatabase(<string literal>, <composite literal with a
\* Migrations string-literal field>).
WellFormed(call) ==
    /\ call.X # <<>>
    /\ call.Sel = "NewDatabase"
    /\ Len(call.Args) >= 2
    /\ IsStringLit(call.Args[1])
    /\ call.Args[2].node = "CompositeLit"
    /\ MigrationsFields(call.Args[2]) # {}
    /\ IsStringLit(call.Args[2].Elts[Kth(MigrationsFields(call.Args[2]), 1)].Value)
MigrationsLit(call) ==
    Unquoted(call.Args[2].Elts[Kth(MigrationsFields(call.Args[2]), 1)].Value)
\* The declaration a well-formed call of a file stands for.
DeclarationOf(call, filePath) ==
    [Name |-> Unquoted(call.Args[1]),
     MigrationsPath |-> JoinPath(Dir(filePath), MigrationsLit(call)),
     SourceFile |-> filePath]
\* A call through the name the module is imported as.
Matched(call, file) ==
    ImportedAs(file) # <<>> /\ call.X = ImportedAs(file) /\ call.Sel = "NewDatabase"
\* The declarations of the calls of a file, in the order of the calls.
DeclarationsOf(file, filePath) ==
    LET good == SelectSeq(file.Calls, LAMBDA c : Matched(c, file) /\ WellFormed(c))
    IN  [k \in 1..Len(good) |-> DeclarationOf(good[k], filePath)]
FoundIn(filePath) == SelectSeq(disc.databases, LAMBDA d : d.SourceFile = filePath)
DiagnosticsOf(filePath, message) ==
    SelectSeq(disc.Errors, LAMBDA e : e.File = filePath /\ Head(e.Message) = message)

C15_NoImportNoDeclaration ==
    disc.pc \in {"walk", "done"} =>
        \A i \in 1..Len(fsys.entries) :
            (/\ Reached(i)
             /\ ~fsys.entries[i].isDir
             /\ fsys.entries[i].file.parses
             /\ \A k \in ModuleImports(fsys.entries[i].file) :
                   fsys.entries[i].file.Imports[k].Name \in {<<"_">>, <<".">>}) =>
                /\ FoundIn(fsys.entries[i].path) = <<>>
                /\ \A k \in 1..Len(disc.Errors) : disc.Errors[k].File # fsys.entries[i].path

\* A file that imports the module as '_' and holds a well-formed call
\* sqldb.NewDatabase was read: nothing was found, nothing recorded.
C15_Witness ==
    /\ disc.pc = "done"
    /\ fsys \in CallTrees
    /\ fsys.entries[3].file.Imports
          = << ImportSpec(<<"encore.dev", "storage", "sqldb">>, <<"_">>) >>
    /\ \E k \in 1..Len(fsys.entries[3].file.Calls) :
          fsys.entries[3].file.Calls[k] = WellFormedCall(<<"sqldb">>, <<"a">>, <<".", "/", "m">>)
    /\ disc.returned = <<>>
    /\ disc.Errors = <<>>
    /\ disc.err = <<>>

\* The directories the walk leaves out: hidden ones, vendor/dependency
\* directories and the other directories that hold no sources of the
\* application (testdata, names that begin with '_').
LeftOut(name) ==
    \/ name \in {<<"vendor">>, <<"node_modules">>, <<"testdata">>}
    \/ Head(name) \in {".", "_"}
\* Entry i lies in a left-out directory below the root, or is a test file.
Excluded(i) ==
    LET path == fsys.entries[i].path
    IN  \/ \E k \in (Len(fsys.root) + 1)..(Len(path) - 1) : LeftOut(path[k])
        \/ Base(path)[Len(Base(path))] = "_test.go"
TestOrSourceFileAt(i) ==
    /\ ~fsys.entries[i].isDir
    /\ Base(fsys.entries[i].path)[Len(Base(fsys.entries[i].path))] \in {".go", "_test.go"}

\* C16: for every root directory, whatever its own name, when the walk does
\* not fail Discover returns every declaration of every source file under the
\* root that is not in a left-out directory below the root and is not a test
\* file, and no declaration of a file in a left-out directory or of a test file.
C16_DiscoverUnderRoot ==
    (disc.pc = "done" /\ "skipped" \in DOMAIN disc /\ disc.err = <<>>) =>
        \A i \in 1..Len(fsys.entries) :
            (TestOrSourceFileAt(i) /\ fsys.entries[i].file.parses) =>
                LET from == SelectSeq(disc.returned,
                                      LAMBDA d : d.SourceFile = fsys.entries[i].path)
                IN  IF Excluded(i) THEN from = <<>>
                    ELSE from = DeclarationsOf(fsys.entries[i].file, fsys.entries[i].path)

\* The same for the roots whose own name is not one the walk leaves out.
DiscoverUnderPlainRoot ==
    (/\ disc.pc = "done" /\ "skipped" \in DOMAIN disc /\ disc.err = <<>>
     /\ ~LeftOut(Base(fsys.root))) =>
        \A i \in 1..Len(fsys.entries) :
            (TestOrSourceFileAt(i) /\ fsys.entries[i].file.parses) =>
                LET from == SelectSeq(disc.returned,
                                      LAMBDA d : d.SourceFile = fsys.entries[i].path)
                IN  IF Excluded(i) THEN from = <<>>
                    ELSE from = DeclarationsOf(fsys.entries[i].file, fsys.entries[i].path)

\* The matched calls of a file from which no declaration can be extracted.
FailingCalls(file) == SelectSeq(file.Calls, LAMBDA c : Matched(c, file) /\ ~WellFormed(c))
\* The entries for which the scanner has parsed, or tried to parse, the file.
Parsed(i) == Reached(i) /\ SourceFileAt(i)
\* The number of diagnostics the file of entry i accounts for.
DiagnosticsDue(i) ==
    LET e == fsys.entries[i]
    IN  IF ~e.file.parses THEN 1
        ELSE Len(FailingCalls(e.file))
             + Len(SelectSeq(DeclarationsOf(e.file, e.path),
                             LAMBDA d : d.MigrationsPath \notin fsys.exists))
RECURSIVE DiagnosticsDueIn(_)
DiagnosticsDueIn(S) ==
    IF S = {} THEN 0
    ELSE LET i == CHOOSE j \in S : TRUE IN DiagnosticsDue(i) + DiagnosticsDueIn(S \ {i})

\* C17: a file that fails to parse, a matched call from which no declaration
\* can be extracted, and a declaration whose migrations directory does not
\* exist each add one diagnostic to Errors and nothing else: the failing call
\* is skipped, the declaration with the missing directory is kept, the
\* declarations of the other calls and files are all kept, and Discover
\* returns an error, and then no declarations, only when the walk fails.
C17_ErrorPolicy ==
    disc.pc \in {"walk", "done"} =>
        /\ \A i \in 1..Len(fsys.entries) :
              Parsed(i) =>
                  LET e == fsys.entries[i]
                  IN  IF ~e.file.parses
                      THEN /\ Len(DiagnosticsOf(e.path, "failed to parse")) = 1
                           /\ FoundIn(e.path) = <<>>
                      ELSE /\ Len(DiagnosticsOf(e.path, "failed to extract database config"))
                                 = Len(FailingCalls(e.file))
                           /\ Len(DiagnosticsOf(e.path, "migrations directory does not exist: "))
                                 = Len(SelectSeq(DeclarationsOf(e.file, e.path),
                                           LAMBDA d : d.MigrationsPath \notin fsys.exists))
                           /\ FoundIn(e.path) = DeclarationsOf(e.file, e.path)
        /\ Len(disc.Errors) = DiagnosticsDueIn({i \in 1..Len(fsys.entries) : Parsed(i)})
        /\ disc.err # <<>> =>
              /\ disc.pc = "done"
              /\ fsys.entries[disc.idx].isDir /\ fsys.entries[disc.idx].readErr
              /\ disc.returned = <<>>
        /\ (disc.pc = "done" /\ disc.err = <<>>) => disc.returned = disc.databases

\* a.go does not parse: one diagnostic, and the declarations of b.go and
\* sub/c.go are returned without error.
C17_Witness ==
    /\ disc.pc = "done"
    /\ fsys \in WalkTrees
    /\ disc.err = <<>>
    /\ Len(disc.Errors) = 1
    /\ disc.Errors[1].Message = <<"failed to parse">>
    /\ {disc.returned[k].Name : k \in 1..Len(disc.returned)} = {<<"b">>, <<"c">>}

-----------------------------------------------------------------------------
(* Claims about the manifest loader *)

\* The directory an entry names: an absolute path as it is, a relative one
\* below the root.
DirectoryOf(entry) ==
    LET pieces == SelectSeq(SplitPath(entry.Migrations, <<>>), LAMBDA c : c # <<>>)
    IN  IF Head(entry.Migrations) = "/" THEN pieces ELSE fsys.root \o pieces
Offending(entry) ==
    \/ entry.Name = <<>>
    \/ entry.Migrations = <<>>
    \/ DirectoryOf(entry) \notin fsys.exists
OffendingEntries == {k \in 1..Len(manifest.Databases) : Offending(manifest.Databases[k])}

\* C18: LoadManifest returns an error and no databases when the manifest's
\* list is empty or an entry has an empty name, an empty migrations path or
\* a migrations directory (a relative path is taken below the root) that does
\* not exist; the error names the first offending entry or its missing field,
\* and the entries before it are not returned.  A manifest without offending
\* entry is returned whole.
C18_ManifestAllOrNothing ==
    (disc.pc = "loaded" /\ manifest.status = "ok") =>
        IF Len(manifest.Databases) = 0
        THEN disc.err = <<"manifest contains no databases">> /\ disc.returned = <<>>
        ELSE IF OffendingEntries # {}
        THEN LET entry == manifest.Databases[Kth(OffendingEntries, 1)]
             IN  /\ disc.returned = <<>>
                 /\ disc.err # <<>>
                 /\ IF entry.Name = <<>> THEN Contains(disc.err, <<"manifest database entry missing name">>)
                    ELSE Contains(disc.err, Quote(entry.Name))
                 /\ (entry.Name # <<>> /\ entry.Migrations = <<>>) =>
                       Contains(disc.err, <<" missing migrations path">>)
        ELSE /\ disc.err = <<>>
             /\ Len(disc.returned) = Len(manifest.Databases)
             /\ \A k \in 1..Len(manifest.Databases) :
                   /\ disc.returned[k].Name = manifest.Databases[k].Name
                   /\ Clean(<<>>, disc.returned[k].MigrationsPath)
                         = DirectoryOf(manifest.Databases[k])

\* The first entry is valid and the directory of the second does not exist:
\* the error names the second and the first is not returned.
C18_Witness ==
    /\ disc.pc = "loaded"
    /\ manifest = Manifest("ok", << ManifestDatabase(<<"a">>, <<"m">>),
                                   ManifestDatabase(<<"b">>, <<"x">>) >>)
    /\ disc.returned = <<>>
    /\ disc.err = <<"migrations directory for ", "\"", "b", "\"", " does not exist: ",
                    << <<"srv">>, <<"app">>, <<"x">> >> >>

-----------------------------------------------------------------------------
(* Claims about discovery in the commands *)

\* C13: for every command (up, down, status, list, force), the list of
\* databases the command processes or prints after discovery has no two
\* entries of the same name, whatever the sources or the manifest declare.
C13_UniqueNames ==
    disc.pc = "discovered" =>
        /\ DistinctNames(databases)
        /\ cmd.name = "list" =>
              \A i, j \in 1..Len(run.stdout) :
                  (run.stdout[i][1] = run.stdout[j][1]) => i = j

\* The same for the commands that call loadConfigAndDiscover.
UniqueNamesAfterLoadConfigAndDiscover ==
    (disc.pc = "discovered" /\ cmd.name # "list") => DistinctNames(databases)

-----------------------------------------------------------------------------
(* Claims about the overrides of the command line *)

\* The descriptor was resolved and the overrides were applied to it.
Overridden == query # <<>> /\ result.mapping # <<>>

\* C19: after applyConnectionOverrides, the username (password) is the --user
\* (--password) value when that is not empty and the resolved one otherwise;
\* with a --host value holding ':' the host and port are the parts before and
\* after its last ':'; with a --host value without ':' the host is that value
\* and the port is the resolved one; with no --host value both are the
\* resolved ones; the physical name, SSL mode and logical name are the
\* resolved ones; and the connection string is the one built from the
\* descriptor so changed.
C19_OverridesFrame ==
    Overridden =>
        LET resolved == result.mapping[1]
        IN  /\ descriptor.Username = IF cmd.user # <<>> THEN cmd.user ELSE resolved.Username
            /\ descriptor.Password =
                   IF cmd.password # <<>> THEN cmd.password ELSE resolved.Password
            /\ cmd.host = <<>> =>
                   descriptor.Host = resolved.Host /\ descriptor.Port = resolved.Port
            /\ (cmd.host # <<>> /\ ~Contains(cmd.host, <<":">>)) =>
                   descriptor.Host = cmd.host /\ descriptor.Port = resolved.Port
            /\ Contains(cmd.host, <<":">>) =>
                   /\ descriptor.Host \o <<":">> \o descriptor.Port = cmd.host
                   /\ ~Contains(descriptor.Port, <<":">>)
            /\ descriptor.PGDBName = resolved.PGDBName
            /\ descriptor.SSLMode = resolved.SSLMode
            /\ descriptor.EncoreName = resolved.EncoreName
            /\ connStr = BuildConnectionString(
                   DatabaseMapping(resolved.EncoreName, resolved.PGDBName,
                                   descriptor.Host, descriptor.Port,
                                   descriptor.Username, descriptor.Password,
                                   resolved.SSLMode))

\* A --host value without ':' was applied to a descriptor whose resolved port
\* is not the default one, and the connection string was built with that port.
C19_Witness ==
    /\ Overridden
    /\ cmd.host = <<"x">>
    /\ cmd.user = <<>>
    /\ cmd.password # <<>>
    /\ result.mapping[1].Port = <<"7">>
    /\ descriptor.Host = <<"x">>
    /\ Contains(connStr.str, <<"@", "x", ":", "7", "/">>)

-----------------------------------------------------------------------------
(* Claims about the environment changing between calls *)

\* The fields of the entry of a name that are indirections.
IndirectionsOf(name) ==
    LET db == config[FirstDeclaring(name)].Databases[name]
    IN  {ref \in {db.Name, db.Username, db.Password} : ref.IsEnv}

\* Some variable the entry of the name needs was unset when the call was made.
MissedVariable(call) == \E ref \in IndirectionsOf(call.name) : call.env[ref.EnvVar] = <<>>

Succeeded(call) == call.result.mapping # <<>> /\ call.result.err = <<>>
Failed(call) == call.result.mapping = <<>> /\ call.result.err # <<>>

\* C20: every GetMapping call made on the loaded document, whatever calls and
\* changes of the environment came before it, fails when a variable its entry
\* needs is unset at the time of the call and succeeds with the values the
\* variables have at that time otherwise; two calls for the same name under
\* the same environment return the same.
C20_ResolvedAtEachCall ==
    \A k \in 1..Len(history) :
        LET call == history[k]
            db   == config[FirstDeclaring(call.name)].Databases[call.name]
        IN  /\ MissedVariable(call) => Failed(call)
            /\ ~MissedVariable(call) =>
                  /\ Succeeded(call)
                  /\ db.Username.IsEnv =>
                        call.result.mapping[1].Username = call.env[db.Username.EnvVar]
                  /\ db.Password.IsEnv =>
                        call.result.mapping[1].Password = call.env[db.Password.EnvVar]
            /\ \A j \in 1..Len(history) :
                  (history[j].name = call.name /\ history[j].env = call.env) =>
                      history[j].result = call.result

\* Three calls for the same database: the first succeeded, the second failed
\* because the variable had been unset, the third succeeded because it had
\* been set again.
C20_Witness ==
    /\ Len(history) = 3
    /\ \A k \in 1..3 : history[k].name = <<"c">>
    /\ Succeeded(history[1])
    /\ Failed(history[2])
    /\ history[2].env[<<"U">>] = <<>>
    /\ Succeeded(history[3])
    /\ history[3].env[<<"U">>] # <<>>

-----------------------------------------------------------------------------
(* Claims about the order of a run *)

\* The index in the run's list of the database of the k-th engine call.
IndexOfCall(k) == CHOOSE i \in 1..Len(databases) : databases[i].Name = run.calls[k].db

\* C21: in an up, down or status run the engine calls are for databases of the
\* run's list, in the order of the list and at most one per database, all of
\* them for databases the loop has reached; while the loop is between two
\* databases, resolving the next or done, no engine connection is open, and
\* while the engine works the only open connection is the one of the loop's
\* current database.
C21_Sequential ==
    /\ \A k \in 1..Len(run.calls) :
          /\ \E i \in 1..Len(databases) : databases[i].Name = run.calls[k].db
          /\ IndexOfCall(k) < run.idx
          /\ \A l \in 1..Len(run.calls) :
                (k < l) => IndexOfCall(k) < IndexOfCall(l)
    /\ run.pc \in {"start", "loop", "done"} => conns = {}
    /\ run.pc = "engine" => conns \subseteq {databases[run.idx].Name}

\* A run has called the engine for its first database, whose connection is
\* closed, and has the connection for its second database open.
C21_Witness ==
    /\ run.pc = "engine"
    /\ run.idx = 2
    /\ Len(run.calls) = 1
    /\ run.calls[1].db = databases[1].Name
    /\ conns = {databases[2].Name}

-----------------------------------------------------------------------------
(* Claims about Up, Down and the commands that call them *)

\* The last call was Up on a connected, non-dirty target and no migration
\* failed while it ran.
UpRan ==
    /\ last.op = "up"
    /\ last.connect
    /\ ~last.before.dirty
    /\ ~Contains(last.err, <<"migration failed">>)

Pending == NumMigrations - last.before.version

\* C22: Up on a non-dirty target returns a result, with no error; the target
\* is then at the last migration when steps <= 0, and steps migrations
\* further (or at the last one when fewer were pending) when steps > 0; the
\* result carries the versions before and after; with nothing pending the
\* version of the target is unchanged and VersionBefore = VersionAfter.
C22_UpAppliesPending ==
    UpRan =>
        LET applied == IF last.steps <= 0 THEN Pending ELSE Min(last.steps, Pending)
        IN  /\ last.err = <<>>
            /\ last.result # <<>>
            /\ targets[OneTarget] = CleanTarget(last.before.version + applied)
            /\ last.result[1].VersionBefore = last.before.version
            /\ last.result[1].VersionAfter = last.before.version + applied
            /\ Pending = 0 =>
                  /\ last.result[1].VersionBefore = last.result[1].VersionAfter
                  /\ targets[OneTarget] = last.before

\* The same for the calls that ask for no more migrations than are pending,
\* steps <= 0 included.
UpWithinPending ==
    (UpRan /\ (last.steps <= 0 \/ (Pending > 0 /\ last.steps <= Pending))) =>
        LET applied == IF last.steps <= 0 THEN Pending ELSE last.steps
        IN  /\ last.err = <<>>
            /\ last.result # <<>>
            /\ targets[OneTarget] = CleanTarget(last.before.version + applied)
            /\ last.result[1].VersionBefore = last.before.version
            /\ last.result[1].VersionAfter = last.before.version + applied

\* Up with steps > 0 and fewer migrations pending: the pending ones are applied
\* and an error is returned, without a result.
UpBeyondPending ==
    (UpRan /\ last.steps > Pending) =>
        /\ last.err # <<>>
        /\ last.result = <<>>
        /\ targets[OneTarget] = CleanTarget(NumMigrations)

\* Migrator.Down was called so that it takes mig.Down(), which rolls back
\* every applied migration.
RollsBackEverything(call) == call.op = "down" /\ call.steps <= 0

\* C23: in a down run, a call of the engine takes the roll-back-everything
\* path only when --all is set; without --all it is asked to roll back the
\* number of migrations that --steps gives.
C23_DownAllOnlyWithFlag ==
    cmd.name = "down" =>
        \A k \in 1..Len(run.calls) :
            /\ RollsBackEverything(run.calls[k]) => cmd.all
            /\ ~cmd.all => (run.calls[k].steps = cmd.steps /\ run.calls[k].steps > 0)

\* The same for the values of --steps from 1 on, the default among them.
DownAllOnlyWithFlagForPositiveSteps ==
    (cmd.name = "down" /\ cmd.steps > 0) =>
        \A k \in 1..Len(run.calls) :
            /\ RollsBackEverything(run.calls[k]) <=> cmd.all
            /\ ~cmd.all => run.calls[k].steps = cmd.steps

-----------------------------------------------------------------------------
(* Claims about the descriptors the engine is invoked with *)

\* The descriptor of a database of the run after the overrides of the command.
DescriptorOf(name) ==
    applyConnectionOverrides(cmd, GetMapping(config, env, name).mapping[1])

\* The descriptor lacks a field a connection needs.
Lacking(d) == d.Host = <<>> \/ d.Username = <<>> \/ d.PGDBName = <<>>

EndsWith(str, suffix) ==
    Len(str) >= Len(suffix) /\ SubSeq(str, Len(str) - Len(suffix) + 1, Len(str)) = suffix

\* The part of a connection string from the host on, for the given port and mode.
HostPart(d, port, mode) ==
    <<"@">> \o d.Host \o <<":">> \o port \o <<"/">> \o d.PGDBName \o <<"?sslmode=", mode>>

\* The command reported that no connection string could be built for the database.
RequiredErrors ==
    {<<"host is required">>, <<"database name is required">>, <<"username is required">>}

BuildErrorReported(name) ==
    \/ \E e \in RequiredErrors : Contains(run.err, e)
    \/ \E k \in 1..Len(run.stdout) :
          /\ Len(run.stdout[k]) = 4
          /\ run.stdout[k][1] = name
          /\ run.stdout[k][3] = <<"error">>
          /\ run.stdout[k][4] \in RequiredErrors

\* The loop, or the force command, has dealt with databases[j].
DealtWith(j) ==
    IF cmd.name = "force" THEN run.pc = "done" /\ j = 1
    ELSE run.pc \in {"loop", "done"} /\ Visited(j)

\* C24: in a run of up, down, status or force every engine call is for a
\* database whose descriptor after the overrides has a host, a username and a
\* physical name, and its connection string carries the descriptor's port, or
\* 5432 when that is empty; a database the run has dealt with whose
\* configuration resolves to a descriptor lacking one of the three has no
\* engine call and its build error is reported.  BuildConnectionString on a
\* descriptor lacking one of the three returns an error and no string; on any
\* other it returns a string with 5432 for an empty port and disable for an
\* empty SSL mode.
C24_NoEngineCallWithoutHostUserName ==
    /\ \A k \in 1..Len(run.calls) :
          LET d == DescriptorOf(run.calls[k].db)
          IN  /\ ~Lacking(d)
              /\ EndsWith(run.calls[k].connStr,
                          HostPart(d, IF d.Port = <<>> THEN <<"5", "4", "3", "2">> ELSE d.Port,
                                   d.SSLMode))
    /\ run.pc \in {"loop", "done"} =>
          \A j \in 1..Len(databases) :
              (/\ DealtWith(j)
               /\ GetMapping(config, env, databases[j].Name).err = <<>>
               /\ Lacking(DescriptorOf(databases[j].Name))) =>
                  /\ ~CalledFor(databases[j].Name)
                  /\ BuildErrorReported(databases[j].Name)
    /\ (run.pc = "idle" /\ connStr # noConnStr) =>
          IF Lacking(descriptor)
          THEN connStr.str = <<>> /\ connStr.err \in RequiredErrors
          ELSE /\ connStr.err = <<>>
               /\ EndsWith(connStr.str,
                      HostPart(descriptor,
                               IF descriptor.Port = <<>> THEN <<"5", "4", "3", "2">>
                               ELSE descriptor.Port,
                               IF descriptor.SSLMode = "" THEN "disable"
                               ELSE descriptor.SSLMode))

\* A force run whose --host value has an empty host ended without an engine
\* call, with the build error.
C24_Witness ==
    /\ cmd.name = "force"
    /\ cmd.host = <<":", "9">>
    /\ run.pc = "done"
    /\ Len(databases) = 1
    /\ GetMapping(config, env, databases[1].Name).err = <<>>
    /\ run.calls = <<>>
    /\ Contains(run.err, <<"host is required">>)

=============================================================================
